---------------------------- MODULE Spec2Model ----------------------------
(***************************************************************************)
(* Model of the DaVinci Resolve scripting clients of this repository.      *)
(*                                                                         *)
(*   - src/importexport.py : the interactive OTIO import/export tool       *)
(*     (ResolveConnection, OTIOManager, export_menu, import_menu,          *)
(*     main_menu), modelled as a sequential program whose position is pc   *)
(*     and whose host calls receive nondeterministic replies.              *)
(*   - src/taketest.py : frames_to_timecode, modelled as an operator, and  *)
(*     main with everything it calls, modelled as a sequential program.    *)
(*   - src/davinciapitest.py : the module body, modelled likewise.         *)
(*                                                                         *)
(* Python values are modelled as follows.  None is the string "None".      *)
(* Remote handles are strings.  Text that the code inspects character by   *)
(* character (paths, prompt answers) is a sequence of one-character        *)
(* strings.  A host call replies "raise" (the call raised an exception),   *)
(* "none" (it returned a falsy value) or "ok" (it returned a truthy        *)
(* value).                                                                 *)
(***************************************************************************)
EXTENDS Integers, Sequences, FiniteSets, TLC

(***************************************************************************)
(* Bounds of the model.                                                    *)
(***************************************************************************)
\* frames_to_timecode is applied to the frame numbers 0..MaxFrames
MaxFrames == 7300
\* the host can hand out the timeline handles 1..NumTimelines
NumTimelines == 2
\* GetTrackCount replies 0..MaxTracks, GetItemListInTrack 0..MaxItems items
MaxTracks == 1
MaxItems == 1

None == "None"

VARIABLES
    \* ---- importexport.py: main_menu and what it calls ----
    pc,               \* position of the program
    exit_status,      \* "running", or the value main_menu returned: "0" / "1"
    resolve,          \* ResolveConnection.resolve
    project_manager,  \* ResolveConnection.project_manager
    current_project,  \* ResolveConnection.current_project
    current_timeline, \* ResolveConnection.current_timeline
    msg,              \* the last outcome message printed to the terminal
    op,               \* the operation in progress (connect, export, ...)
    calls,            \* host calls of the current menu operation, in order
    failed,           \* identities of the host calls that failed in op
    lastCall,         \* the most recent host call and whether it had failed before in op
    loc,              \* local variables of the running function
    choice,           \* main_menu's variable choice: the last menu entry read
    env,              \* the interpreter and the installation the tool runs on
    \* ---- taketest.py: frames_to_timecode ----
    tc_frames, tc_fps, tc_result

menuVars == <<pc, exit_status, resolve, project_manager, current_project,
              current_timeline, msg, op, calls, failed, lastCall, loc, choice, env>>
tcVars == <<tc_frames, tc_fps, tc_result>>
vars == <<pc, exit_status, resolve, project_manager, current_project,
          current_timeline, msg, op, calls, failed, lastCall, loc, choice, env,
          tc_frames, tc_fps, tc_result>>

(***************************************************************************)
(* Python text helpers.                                                    *)
(***************************************************************************)
Digits == <<"0", "1", "2", "3", "4", "5", "6", "7", "8", "9">>

RECURSIVE Dec(_)
\* str(n) for a natural number n
Dec(n) == IF n < 10 THEN Digits[n + 1] ELSE Dec(n \div 10) \o Digits[(n % 10) + 1]

\* format(n, "02d"): at least two digits, padded with zeros on the left
Pad2(n) == IF n < 10 THEN "0" \o Dec(n) ELSE Dec(n)

(***************************************************************************)
(* taketest.py: frames_to_timecode.                                        *)
(*                                                                         *)
(* A Python value is [kind |-> "int", val |-> n] or PyNone.  frames / fps  *)
(* is true division; its result is kept exact as the fraction num / den    *)
(* (IEEE rounding of the quotient is not modelled: for the frame numbers   *)
(* and rates of the model every value involved is exactly representable or *)
(* far from an integer boundary).                                          *)
(***************************************************************************)
PyInt(n) == [kind |-> "int", val |-> n]
PyNone == [kind |-> "none", val |-> 0]

\* str(v) inside an f-string
PyStr(v) == IF v.kind = "int" THEN Dec(v.val) ELSE "None"

\* q // k for the fraction q and the integer k > 0
RFloorDiv(q, k) == q.num \div (q.den * k)
\* q % k for the fraction q and the integer k > 0
RMod(q, k) == [num |-> q.num - (k * q.den * RFloorDiv(q, k)), den |-> q.den]
\* int(q) for a fraction q >= 0
RInt(q) == q.num \div q.den

\* the exception line 385 raises, "none" when it raises nothing
TimecodeDivisionError(frames, fps) ==
    IF frames.kind # "int" \/ fps.kind # "int" THEN "TypeError"
    ELSE IF fps.val = 0 THEN "ZeroDivisionError"
    ELSE "none"

\* line 387 (the first variant: minutes that are not reduced modulo the hour)
TimecodeMinutesNoHourWrap(total_seconds) == RFloorDiv(total_seconds, 60)
TimecodeMinutes(total_seconds) == RFloorDiv(RMod(total_seconds, 3600), 60)

\* lines 385-391: the body of the try block, on numbers with fps # 0
TimecodeBody(frames, fps) ==
    LET total_seconds == [num |-> frames, den |-> fps]
        hours == RFloorDiv(total_seconds, 3600)
        minutes == TimecodeMinutes(total_seconds)
        seconds == RInt(RMod(total_seconds, 60))
        remaining_frames == frames % fps
    IN  Pad2(hours) \o ":" \o Pad2(minutes) \o ":" \o Pad2(seconds)
            \o ":" \o Pad2(remaining_frames)

\* line 392: which exceptions the handler catches (the first variant: a
\* handler for ZeroDivisionError alone instead of the bare except)
TimecodeCatchesOnlyZeroDivision(exc) == exc = "ZeroDivisionError"
TimecodeCatches(exc) == TRUE

\* the whole function: [raised |-> the exception that propagates or "none",
\*                      value  |-> the string returned]
frames_to_timecode(frames, fps) ==
    LET exc == TimecodeDivisionError(frames, fps)
    IN  IF exc = "none"
        THEN [raised |-> "none", value |-> TimecodeBody(frames.val, fps.val)]
        ELSE IF TimecodeCatches(exc)
        THEN [raised |-> "none", value |-> "Frame " \o PyStr(frames)]
        ELSE [raised |-> exc, value |-> ""]

\* frame rates the conversion is applied to
FpsValues == {0, 1, 2, 24, 25, 30}
TcFramesInputs == {PyInt(n) : n \in 0..MaxFrames} \cup {PyNone}
TcFpsInputs == {PyInt(n) : n \in FpsValues} \cup {PyNone}
NoResult == [raised |-> "pending", value |-> ""]

(***************************************************************************)
(* Text typed at a prompt and file-system paths: sequences of characters.  *)
(***************************************************************************)
Whitespace == {" ", "\t"}

RECURSIVE LStrip(_)
LStrip(s) == IF s # <<>> /\ Head(s) \in Whitespace THEN LStrip(Tail(s)) ELSE s

RECURSIVE RStrip(_)
RStrip(s) ==
    IF s # <<>> /\ s[Len(s)] \in Whitespace THEN RStrip(SubSeq(s, 1, Len(s) - 1)) ELSE s

\* str.strip()
Strip(s) == RStrip(LStrip(s))

\* str.lower(), on the letters that occur in the model
LowerChar(c) ==
    CASE c = "Y" -> "y"
      [] c = "E" -> "e"
      [] c = "S" -> "s"
      [] c = "N" -> "n"
      [] c = "O" -> "o"
      [] c = "T" -> "t"
      [] c = "I" -> "i"
      [] OTHER -> c
Lower(s) == [i \in 1..Len(s) |-> LowerChar(s[i])]

\* index of the last occurrence of character c in s, 0 when there is none
RECURSIVE LastIndexOf(_, _)
LastIndexOf(s, c) ==
    IF s = <<>> THEN 0
    ELSE IF s[Len(s)] = c THEN Len(s)
    ELSE LastIndexOf(SubSeq(s, 1, Len(s) - 1), c)

\* pathlib: Path(p).name
PathName(p) == SubSeq(p, LastIndexOf(p, "/") + 1, Len(p))
\* pathlib: Path(p).parent ("." when p has no directory part)
PathParent(p) ==
    IF LastIndexOf(p, "/") <= 1 THEN (IF LastIndexOf(p, "/") = 1 THEN <<"/">> ELSE <<".">>)
    ELSE SubSeq(p, 1, LastIndexOf(p, "/") - 1)
\* pathlib: Path(p).suffix: from the last dot of the name on, unless that dot
\* is the first or the last character of the name
PathSuffix(p) ==
    LET name == PathName(p)
        i == LastIndexOf(name, ".")
    IN  IF 1 < i /\ i < Len(name) THEN SubSeq(name, i, Len(name)) ELSE <<>>
\* pathlib: Path(p).stem
PathStem(p) ==
    LET name == PathName(p)
        i == LastIndexOf(name, ".")
    IN  IF 1 < i /\ i < Len(name) THEN SubSeq(name, 1, i - 1) ELSE name

DotOtio == <<".", "o", "t", "i", "o">>

\* input() raised EOFError instead of returning a line
Eof == <<"<EOF>">>

\* get_user_input(prompt, default): lines 390-396
get_user_input(raw, default) ==
    IF default # <<>>
    THEN (IF Strip(raw) # <<>> THEN Strip(raw) ELSE default)
    ELSE Strip(raw)

(***************************************************************************)
(* Host calls.  Every call of a method of a remote handle goes through     *)
(* HostCall, which records it.                                             *)
(***************************************************************************)
Replies == {"raise", "none", "ok"}
Timelines == {Dec(i) : i \in 1..NumTimelines}

\* a reply is a failure when the call raised, or returned a falsy value where
\* a handle, a count, a name or a success flag is expected
Failure(res) == res # "ok"
\* ... and only when it raised where None, 0 or "" is an ordinary reply (a
\* printed value, an item without media, a clip without a file path)
Raised(res) == res = "raise"

NoMsg == [kind |-> "", detail |-> ""]
Msg(kind, detail) == [kind |-> kind, detail |-> detail]
NoCall == [id |-> "", again |-> FALSE]
NoArg == <<>>

\* the call `id` (with argument arg) is issued within operation newop and
\* replies res, which is a failure when bad; it is appended to calls when
\* logged
HostCall(newop, id, arg, res, bad, logged) ==
    LET prior == IF newop = op THEN failed ELSE {}
    IN  /\ op' = newop
        /\ failed' = IF bad THEN prior \cup {id} ELSE prior
        /\ lastCall' = [id |-> id, again |-> id \in prior]
        /\ calls' = IF logged
                    THEN Append(calls, [op |-> newop, name |-> id, arg |-> arg, res |-> res])
                    ELSE calls

NoHostCall == UNCHANGED <<op, calls, failed, lastCall>>

\* the operation is over: control is back in main_menu; calls keeps what the
\* operation issued until the next menu entry is read
EndOp ==
    /\ op' = "menu"
    /\ failed' = {}
    /\ lastCall' = NoCall
    /\ UNCHANGED calls

\* the local variables of connect, export_menu, import_menu, import_otio,
\* _preimport_media_files and _relink_offline_clips; answer is what was typed
\* at the last confirmation prompt
LocInit ==
    [info_idx |-> 1, frame_none |-> FALSE,
     otio_path |-> <<>>, exists |-> FALSE, timeline_name |-> <<>>,
     attempt |-> 0, new_timeline |-> None, media_storage |-> None,
     phase |-> "none", video_tracks |-> PyInt(0), audio_tracks |-> PyInt(0),
     kind |-> "video", track_idx |-> 0, n_items |-> 0, item_idx |-> 0,
     relink_pool |-> None, have_offline |-> FALSE, err |-> "",
     answer |-> <<>>]

\* back in main_menu after import_menu: only the path entered and what the
\* last check of it found are kept, for reference
KeepPath(l) == [LocInit EXCEPT !.otio_path = l.otio_path, !.exists = l.exists]

connVars == <<resolve, project_manager, current_project, current_timeline>>
\* what only the menu prompt and frames_to_timecode change
restVars == <<choice, env, tc_frames, tc_fps, tc_result>>

(***************************************************************************)
(* main_menu, lines 502-510 and 536-544: construction and connect.         *)
(***************************************************************************)
\* raise inside main_menu's try block: control goes to the handler at 536
MainRaise(detail) ==
    /\ pc' = "main_except"
    /\ loc' = [loc EXCEPT !.err = detail, !.answer = <<>>]

\* ResolveConnection._setup_environment, lines 33-71: the error it raises
\* (the first variant: a setup without the architecture check of line 38)
SetupEnvironmentErrorNoArchCheck(is64bit, modules_isdir) ==
    IF ~modules_isdir THEN "modules_path_missing" ELSE "none"
SetupEnvironmentError(is64bit, modules_isdir) ==
    IF ~is64bit THEN "not_64bit"
    ELSE IF ~modules_isdir THEN "modules_path_missing"
    ELSE "none"

\* ResolveConnection(): __init__ (lines 26-31) and _setup_environment
SetupEnvironment ==
    /\ pc = "start"
    /\ LET e == SetupEnvironmentError(env.is64bit, env.modules_isdir)
       IN  IF e = "none"
           THEN pc' = "connect" /\ loc' = loc
           ELSE MainRaise(e)
    /\ resolve' = None /\ project_manager' = None
    /\ current_project' = None /\ current_timeline' = None
    /\ op' = "connect"
    /\ UNCHANGED <<exit_status, msg, calls, failed, lastCall>>
    /\ UNCHANGED restVars

\* connect, line 78: import DaVinciResolveScript
ConnectImportModule ==
    /\ pc = "connect"
    /\ \E r \in {"ok", "raise"} :
         IF r = "ok" THEN pc' = "connect_scriptapp" /\ loc' = loc
         ELSE MainRaise("import_error")
    /\ NoHostCall
    /\ UNCHANGED <<exit_status, msg>>
    /\ UNCHANGED connVars
    /\ UNCHANGED restVars

\* connect, lines 79-82: scriptapp("Resolve")
ConnectScriptapp ==
    /\ pc = "connect_scriptapp"
    /\ \E r \in Replies :
         /\ HostCall("connect", "scriptapp", NoArg, r, Failure(r), TRUE)
         /\ resolve' = IF r = "ok" THEN "resolve" ELSE None
         /\ IF r = "ok" THEN pc' = "connect_pm" /\ loc' = loc
            ELSE MainRaise(IF r = "none" THEN "resolve_not_running" ELSE "host")
    /\ UNCHANGED <<exit_status, msg, project_manager, current_project, current_timeline>>
    /\ UNCHANGED restVars

\* connect, line 84: GetProjectManager()
ConnectGetProjectManager ==
    /\ pc = "connect_pm"
    /\ \E r \in Replies :
         /\ HostCall("connect", "Resolve.GetProjectManager", NoArg, r, Failure(r), TRUE)
         /\ project_manager' = IF r = "ok" THEN "project_manager" ELSE project_manager
         /\ IF r = "raise" THEN MainRaise("host")
            ELSE IF r = "none" THEN MainRaise("attribute_error")
            ELSE pc' = "connect_project" /\ loc' = loc
    /\ UNCHANGED <<exit_status, msg, resolve, current_project, current_timeline>>
    /\ UNCHANGED restVars

\* connect, lines 85-88: GetCurrentProject()
ConnectGetCurrentProject ==
    /\ pc = "connect_project"
    /\ \E r \in Replies :
         /\ HostCall("connect", "ProjectManager.GetCurrentProject", NoArg, r, Failure(r), TRUE)
         /\ current_project' = IF r = "ok" THEN "project" ELSE current_project
         /\ IF r = "ok" THEN pc' = "connect_timeline" /\ loc' = loc
            ELSE MainRaise(IF r = "none" THEN "no_project_open" ELSE "host")
    /\ UNCHANGED <<exit_status, msg, resolve, project_manager, current_timeline>>
    /\ UNCHANGED restVars

\* connect, line 90: GetCurrentTimeline()
ConnectGetCurrentTimeline ==
    /\ pc = "connect_timeline"
    /\ \E r \in Replies, t \in Timelines :
         /\ HostCall("connect", "Project.GetCurrentTimeline", NoArg, r, Failure(r), TRUE)
         /\ current_timeline' = IF r = "ok" THEN t ELSE current_timeline
         /\ IF r = "raise" THEN MainRaise("host")
            ELSE pc' = "connect_info" /\ loc' = loc
    /\ UNCHANGED <<exit_status, msg, resolve, project_manager, current_project>>
    /\ UNCHANGED restVars

\* connect, lines 93-106: the calls that only fetch what is printed
ConnectInfoCalls(ct) ==
    IF ct # None
    THEN <<"Resolve.GetVersionString", "Project.GetName", "Timeline.GetName",
           "Timeline.GetStartFrame", "Timeline.GetEndFrame">>
    ELSE <<"Resolve.GetVersionString", "Project.GetName">>

\* connect, lines 93-108: one call of ConnectInfoCalls; after the last one
\* the duration is computed (line 103) and connect returns True
ConnectInfoStep ==
    /\ pc = "connect_info"
    /\ \E r \in Replies :
         LET seq == ConnectInfoCalls(current_timeline)
             id == seq[loc.info_idx]
             frame_none == loc.frame_none
                 \/ (r = "none" /\ id \in {"Timeline.GetStartFrame", "Timeline.GetEndFrame"})
         IN  /\ HostCall("connect", id, NoArg, r, Raised(r) \/ frame_none, TRUE)
             /\ IF r = "raise" THEN MainRaise("host")
                ELSE IF loc.info_idx < Len(seq)
                THEN /\ pc' = "connect_info"
                     /\ loc' = [loc EXCEPT !.info_idx = @ + 1, !.frame_none = frame_none]
                ELSE IF frame_none THEN MainRaise("type_error")
                ELSE pc' = "menu" /\ loc' = LocInit
    /\ msg' = IF pc' = "menu" THEN Msg("connected", "") ELSE msg
    /\ UNCHANGED exit_status
    /\ UNCHANGED connVars
    /\ UNCHANGED restVars

\* main_menu, lines 536-542: the handler of the outer try block
MainExcept ==
    /\ pc = "main_except"
    /\ pc' = "exited"
    /\ exit_status' = "1"
    /\ msg' = Msg("error", loc.err)
    /\ loc' = LocInit
    /\ EndOp
    /\ UNCHANGED connVars
    /\ UNCHANGED restVars

(***************************************************************************)
(* main_menu, lines 512-534: the menu loop.                                *)
(***************************************************************************)
ChoiceInputs ==
    {<<"1">>, <<" ", "1">>, <<"2">>, <<"3">>, <<"3", " ">>, <<"4">>, <<"0">>,
     <<>>, <<"1", "2">>, <<"y">>}

\* lines 523-534: the branch taken for the stripped choice (the first two
\* variants: a menu without the timeline check of line 524, and a menu that
\* takes every entry other than 1 and 2 as quit)
DispatchNoTimelineCheck(entry, ct) ==
    IF entry = <<"1">> THEN "export_menu"
    ELSE IF entry = <<"2">> THEN "import_menu"
    ELSE IF entry = <<"3">> THEN "quit"
    ELSE "invalid"
DispatchQuitOnInvalid(entry, ct) ==
    IF entry = <<"1">> THEN (IF ct # None THEN "export_menu" ELSE "refuse")
    ELSE IF entry = <<"2">> THEN "import_menu"
    ELSE "quit"
Dispatch(entry, ct) ==
    IF entry = <<"1">> THEN (IF ct # None THEN "export_menu" ELSE "refuse")
    ELSE IF entry = <<"2">> THEN "import_menu"
    ELSE IF entry = <<"3">> THEN "quit"
    ELSE "invalid"

\* one iteration of the loop: the prompt of line 521 and the dispatch
MenuChoice ==
    /\ pc = "menu"
    /\ \E raw \in ChoiceInputs :
         LET d == Dispatch(Strip(raw), current_timeline)
         IN  /\ pc' = CASE d = "export_menu" -> "export_menu"
                        [] d = "import_menu" -> "import_menu"
                        [] d = "quit" -> "exited"
                        [] OTHER -> "menu"
             /\ msg' = CASE d = "export_menu" -> Msg("export_banner", "")
                         [] d = "import_menu" -> Msg("import_banner", "")
                         [] d = "quit" -> Msg("goodbye", "")
                         [] d = "refuse" -> Msg("no_timeline", "")
                         [] OTHER -> Msg("invalid_choice", "")
             /\ exit_status' = IF d = "quit" THEN "0" ELSE exit_status
             /\ op' = CASE d = "export_menu" -> "export"
                        [] d = "import_menu" -> "import"
                        [] OTHER -> "menu"
             /\ loc' = LocInit
             /\ choice' = Strip(raw)
    /\ calls' = <<>>
    /\ failed' = {}
    /\ lastCall' = NoCall
    /\ UNCHANGED connVars
    /\ UNCHANGED <<env, tc_frames, tc_fps, tc_result>>

\* line 521: input() raises EOFError (standard input is closed); the
\* exception is caught by the handler at 536
MenuEof ==
    /\ pc = "menu"
    /\ pc' = "main_except"
    /\ loc' = [LocInit EXCEPT !.err = "eof"]
    /\ NoHostCall
    /\ UNCHANGED <<exit_status, msg>>
    /\ UNCHANGED connVars
    /\ UNCHANGED restVars

(***************************************************************************)
(* export_menu (lines 399-441) and OTIOManager.export_current_timeline     *)
(* (lines 127-163).                                                        *)
(***************************************************************************)
ConfirmInputs ==
    {<<>>, <<"y">>, <<"Y">>, <<"y", "e", "s">>, <<"Y", "E", "S">>, <<" ", "y", " ">>,
     <<"n">>, <<"N", "O">>, <<"y", "y">>, Eof}

\* lines 427-428 and 480-481: the answer counts as a confirmation (the first
\* variant: a prompt that takes everything but 'n' and 'no' as one)
ConfirmedUnlessNo(raw) == Lower(get_user_input(raw, <<"y">>)) \notin {<<"n">>, <<"n", "o">>}
Confirmed(raw) == Lower(get_user_input(raw, <<"y">>)) \in {<<"y">>, <<"y", "e", "s">>}

\* ResolveConnection.ensure_timeline, lines 115-118: it raises
EnsureTimelineRaises(ct) == ct = None

\* export_menu, line 407: the timeline check
ExportMenuNoTimeline(ct) == ct = None

\* raise inside export_menu's try block: control goes to the handler at 440
\* (the first variant: an export_menu without handler, whose exceptions reach
\* main_menu's)
ExportRaiseUncaught(detail) ==
    /\ pc' = "main_except"
    /\ loc' = [loc EXCEPT !.err = detail, !.answer = <<>>]
ExportRaise(detail) ==
    /\ pc' = "export_except"
    /\ loc' = [loc EXCEPT !.err = detail, !.answer = <<>>]

\* export_menu, lines 405-418
ExportMenuGetName ==
    /\ pc = "export_menu"
    /\ IF ExportMenuNoTimeline(current_timeline)
       THEN /\ pc' = "menu"
            /\ msg' = Msg("export_no_timeline", "")
            /\ loc' = LocInit
            /\ NoHostCall
       ELSE \E r \in Replies \cup {"noneText"} :
              /\ HostCall("export", "Timeline.GetName", current_timeline, r, Failure(r), TRUE)
              /\ IF r = "raise" THEN ExportRaise("host") /\ msg' = msg
                 ELSE IF r \in {"none", "noneText"}
                 THEN pc' = "menu" /\ msg' = Msg("export_no_name", "") /\ loc' = LocInit
                 ELSE pc' = "export_confirm" /\ msg' = msg /\ loc' = loc
    /\ UNCHANGED exit_status
    /\ UNCHANGED connVars
    /\ UNCHANGED restVars

\* export_menu, lines 426-430
ExportMenuConfirm ==
    /\ pc = "export_confirm"
    /\ \E raw \in ConfirmInputs :
         IF raw = Eof THEN ExportRaise("eof") /\ msg' = msg
         ELSE IF Confirmed(raw)
         THEN /\ pc' = "export_current_timeline"
              /\ msg' = msg
              /\ loc' = [loc EXCEPT !.answer = raw]
         ELSE /\ pc' = "menu"
              /\ msg' = Msg("export_cancelled", "")
              /\ loc' = [LocInit EXCEPT !.answer = raw]
    /\ NoHostCall
    /\ UNCHANGED exit_status
    /\ UNCHANGED connVars
    /\ UNCHANGED restVars

\* export_current_timeline, lines 137-140: ensure_timeline and GetName
ExportEnsureAndName ==
    /\ pc = "export_current_timeline"
    /\ IF EnsureTimelineRaises(current_timeline)
       THEN ExportRaise("no_timeline") /\ NoHostCall
       ELSE \E r \in Replies :
              /\ HostCall("export", "Timeline.GetName", current_timeline, r, Raised(r), TRUE)
              /\ IF r = "raise" THEN ExportRaise("host")
                 ELSE pc' = "export_mkdir" /\ loc' = [loc EXCEPT !.answer = <<>>]
    /\ UNCHANGED <<exit_status, msg>>
    /\ UNCHANGED connVars
    /\ UNCHANGED restVars

\* export_current_timeline, lines 143-150: the output directory is created
\* (mkdir may raise OSError) and the suffix is forced to .otio
ExportMkdir ==
    /\ pc = "export_mkdir"
    /\ \E r \in {"ok", "raise"} :
         IF r = "ok" THEN pc' = "export_call" /\ loc' = loc
         ELSE ExportRaise("os_error")
    /\ NoHostCall
    /\ UNCHANGED <<exit_status, msg>>
    /\ UNCHANGED connVars
    /\ UNCHANGED restVars

\* export_current_timeline, lines 156-163 and export_menu, lines 434-438:
\* where control goes after Export replied r (the first variant: an export
\* that calls Export again after a falsy reply)
AfterExportRetry(r) ==
    IF r = "ok" THEN "export_done" ELSE IF r = "none" THEN "export_call" ELSE "export_except"
AfterExport(r) == IF r = "ok" THEN "export_done" ELSE "export_except"

\* export_current_timeline, lines 152-163: timeline.Export(...)
ExportCall ==
    /\ pc = "export_call"
    /\ \E r \in Replies :
         /\ HostCall("export", "Timeline.Export", current_timeline, r, Failure(r), TRUE)
         /\ pc' = AfterExport(r)
         /\ loc' = [loc EXCEPT !.err = CASE r = "none" -> "export_operation_failed"
                                         [] r = "raise" -> "host"
                                         [] OTHER -> ""]
    /\ UNCHANGED <<exit_status, msg>>
    /\ UNCHANGED connVars
    /\ UNCHANGED restVars

\* export_menu, lines 433-436: export_current_timeline returned True
ExportMenuSuccess ==
    /\ pc = "export_done"
    /\ pc' = "menu"
    /\ msg' = Msg("export_ok", "")
    /\ loc' = LocInit
    /\ EndOp
    /\ UNCHANGED exit_status
    /\ UNCHANGED connVars
    /\ UNCHANGED restVars

\* export_menu, lines 440-441: the handler prints the error and returns
ExportMenuExcept ==
    /\ pc = "export_except"
    /\ pc' = "menu"
    /\ msg' = Msg("export_error", loc.err)
    /\ loc' = LocInit
    /\ EndOp
    /\ UNCHANGED exit_status
    /\ UNCHANGED connVars
    /\ UNCHANGED restVars

(***************************************************************************)
(* import_menu (lines 444-493).                                            *)
(***************************************************************************)
PathInputs ==
    {<<>>, <<" ">>,
     <<"d", "/", "a", ".", "o", "t", "i", "o">>,
     <<" ", "a", ".", "O", "T", "I", "O">>,
     <<"d", "/", "a", ".", "t", "x", "t">>,
     <<"d", "/", "o", "t", "i", "o">>,
     <<"d", "/", ".", "o", "t", "i", "o">>}
NameInputs == {<<>>, <<"T">>, <<" ">>}

\* raise inside import_menu's try block (directly, or out of import_otio):
\* control goes to the handler at 492
ImportRaise(detail) ==
    /\ pc' = "import_except"
    /\ loc' = [loc EXCEPT !.err = detail, !.answer = <<>>]

\* import_menu, lines 454-467: the message the entered path is rejected
\* with, "ok" when it is accepted (the first variant: an import_menu without
\* the extension check of line 465)
ImportMenuPathCheckNoSuffix(p, exists) ==
    IF p = <<>> THEN "import_no_path"
    ELSE IF ~exists THEN "import_not_found"
    ELSE "ok"
ImportMenuPathCheck(p, exists) ==
    IF p = <<>> THEN "import_no_path"
    ELSE IF ~exists THEN "import_not_found"
    ELSE IF Lower(PathSuffix(p)) # DotOtio THEN "import_bad_ext"
    ELSE "ok"

\* import_menu, lines 450-469
ImportMenuPath ==
    /\ pc = "import_menu"
    /\ \E raw \in PathInputs \cup {Eof}, exists \in BOOLEAN :
         IF raw = Eof THEN ImportRaise("eof") /\ msg' = msg
         ELSE LET p == get_user_input(raw, <<>>)
                  c == ImportMenuPathCheck(p, exists)
              IN  IF c = "ok"
                  THEN /\ pc' = "import_name"
                       /\ loc' = [loc EXCEPT !.otio_path = p, !.exists = exists]
                       /\ msg' = msg
                  ELSE /\ pc' = "menu"
                       /\ loc' = [LocInit EXCEPT !.otio_path = p,
                                                 !.exists = (p # <<>> /\ exists)]
                       /\ msg' = Msg(c, "")
    /\ NoHostCall
    /\ UNCHANGED exit_status
    /\ UNCHANGED connVars
    /\ UNCHANGED restVars

\* import_menu, lines 471-477
ImportMenuName ==
    /\ pc = "import_name"
    /\ \E raw \in NameInputs \cup {Eof} :
         IF raw = Eof THEN ImportRaise("eof") /\ msg' = msg
         ELSE LET name == get_user_input(raw, PathStem(loc.otio_path))
              IN  IF name = <<>>
                  THEN /\ pc' = "menu"
                       /\ loc' = KeepPath(loc)
                       /\ msg' = Msg("import_no_name", "")
                  ELSE /\ pc' = "import_confirm"
                       /\ loc' = [loc EXCEPT !.timeline_name = name]
                       /\ msg' = msg
    /\ NoHostCall
    /\ UNCHANGED exit_status
    /\ UNCHANGED connVars
    /\ UNCHANGED restVars

\* import_menu, lines 479-483
ImportMenuConfirm ==
    /\ pc = "import_confirm"
    /\ \E raw \in ConfirmInputs :
         IF raw = Eof THEN ImportRaise("eof") /\ msg' = msg
         ELSE IF Confirmed(raw)
         THEN /\ pc' = "import_otio"
              /\ msg' = msg
              /\ loc' = [loc EXCEPT !.answer = raw]
         ELSE /\ pc' = "menu"
              /\ msg' = Msg("import_cancelled", "")
              /\ loc' = [KeepPath(loc) EXCEPT !.answer = raw]
    /\ NoHostCall
    /\ UNCHANGED exit_status
    /\ UNCHANGED connVars
    /\ UNCHANGED restVars

\* import_menu, lines 486-488: import_otio returned True
ImportMenuSuccess ==
    /\ pc = "import_return"
    /\ pc' = "menu"
    /\ msg' = Msg("import_ok", "")
    /\ loc' = KeepPath(loc)
    /\ EndOp
    /\ UNCHANGED exit_status
    /\ UNCHANGED connVars
    /\ UNCHANGED restVars

\* import_menu, lines 492-493: the handler prints the error and returns
ImportMenuExcept ==
    /\ pc = "import_except"
    /\ pc' = "menu"
    /\ msg' = Msg("import_error", loc.err)
    /\ loc' = KeepPath(loc)
    /\ EndOp
    /\ UNCHANGED exit_status
    /\ UNCHANGED connVars
    /\ UNCHANGED restVars

(***************************************************************************)
(* OTIOManager.import_otio (lines 165-284) up to the new timeline.         *)
(***************************************************************************)
\* lines 177-182: the exception the validation raises, "none" when it passes
ImportOtioPathError(p, exists) ==
    IF ~exists THEN "file_not_found"
    ELSE IF Lower(PathSuffix(p)) # DotOtio THEN "value_error"
    ELSE "none"

\* lines 176-190: validation, default name, and the stat() of line 190
ImportOtioValidate ==
    /\ pc = "import_otio"
    /\ \E exists \in BOOLEAN, stat_ok \in BOOLEAN :
         LET e == ImportOtioPathError(loc.otio_path, exists)
         IN  IF e # "none"
             THEN /\ pc' = "import_except"
                  /\ loc' = [loc EXCEPT !.err = e, !.exists = exists, !.answer = <<>>]
             ELSE IF ~stat_ok THEN ImportRaise("os_error")
             ELSE /\ pc' = "import_get_pool"
                  /\ loc' = [loc EXCEPT !.answer = <<>>,
                                         !.timeline_name =
                                IF @ = <<>> THEN PathStem(loc.otio_path) ELSE @]
    /\ NoHostCall
    /\ UNCHANGED <<exit_status, msg>>
    /\ UNCHANGED connVars
    /\ UNCHANGED restVars

\* lines 192-196: GetMediaPool()
ImportGetMediaPool ==
    /\ pc = "import_get_pool"
    /\ \E r \in Replies :
         /\ HostCall("import", "Project.GetMediaPool", NoArg, r, Failure(r), TRUE)
         /\ IF r = "ok" THEN pc' = "preimport_storage" /\ loc' = loc
            ELSE ImportRaise(IF r = "none" THEN "no_media_pool" ELSE "host")
    /\ UNCHANGED <<exit_status, msg>>
    /\ UNCHANGED connVars
    /\ UNCHANGED restVars

(***************************************************************************)
(* OTIOManager._preimport_media_files (lines 349-387); every way out of it *)
(* returns to line 214 of import_otio.                                     *)
(***************************************************************************)
\* lines 212 and 386-387: where control goes when the pre-import ends with
\* outcome r; the handler at 386 swallows every exception and line 214 is
\* next (the first variant: a pre-import without that handler)
AfterPreimportPropagates(r) == IF r = "raise" THEN "import_except" ELSE "import_attempt"
AfterPreimport(r) == "import_attempt"

\* line 352: GetMediaStorage()
PreimportGetMediaStorage ==
    /\ pc = "preimport_storage"
    /\ \E r \in Replies :
         /\ HostCall("preimport", "Resolve.GetMediaStorage", NoArg, r, Failure(r), TRUE)
         /\ IF r = "raise" THEN pc' = AfterPreimport(r) /\ loc' = loc
            ELSE pc' = "preimport_pool" /\ loc' = [loc EXCEPT !.media_storage = r]
    /\ UNCHANGED <<exit_status, msg>>
    /\ UNCHANGED connVars
    /\ UNCHANGED restVars

\* lines 353-357: GetMediaPool() and the check of both handles
PreimportGetMediaPool ==
    /\ pc = "preimport_pool"
    /\ \E r \in Replies :
         /\ HostCall("preimport", "Project.GetMediaPool", NoArg, r, Failure(r), TRUE)
         /\ pc' = IF r = "ok" /\ loc.media_storage = "ok"
                  THEN "preimport_scan" ELSE AfterPreimport(r)
    /\ loc' = loc
    /\ UNCHANGED <<exit_status, msg>>
    /\ UNCHANGED connVars
    /\ UNCHANGED restVars

\* lines 360-384: the source directory is listed for media files
PreimportScan ==
    /\ pc = "preimport_scan"
    /\ \E found \in {"no_dir", "raise", "no_files", "files"} :
         pc' = IF found = "files" THEN "preimport_import_media" ELSE AfterPreimport(found)
    /\ loc' = loc
    /\ NoHostCall
    /\ UNCHANGED <<exit_status, msg>>
    /\ UNCHANGED connVars
    /\ UNCHANGED restVars

\* lines 378-382: ImportMedia(media_files)
PreimportImportMedia ==
    /\ pc = "preimport_import_media"
    /\ \E r \in Replies :
         /\ HostCall("preimport", "MediaPool.ImportMedia", PathParent(loc.otio_path), r, Failure(r), TRUE)
         /\ pc' = AfterPreimport(r)
    /\ loc' = loc
    /\ UNCHANGED <<exit_status, msg>>
    /\ UNCHANGED connVars
    /\ UNCHANGED restVars

(***************************************************************************)
(* import_otio, lines 198-238: the three import attempts.                  *)
(***************************************************************************)
\* the import_options dictionary of attempt k (lines 199-205, 219-223, 229);
\* a dictionary is a function from its keys
ImportOptions(k, timeline_name, otio_path) ==
    CASE k = 1 -> [timelineName |-> timeline_name,
                   importSourceClips |-> TRUE,
                   sourceClipsPath |-> PathParent(otio_path),
                   sourceClipsFolders |-> <<>>,
                   interlaceProcessing |-> FALSE]
      [] k = 2 -> [timelineName |-> timeline_name,
                   importSourceClips |-> FALSE,
                   interlaceProcessing |-> FALSE]
      [] OTHER -> [key \in {} |-> TRUE]

\* lines 216-234: where control goes after attempt k replied r (the
\* variants before it: a ladder of two steps, a ladder that goes on after an
\* attempt returned a timeline, a ladder that goes on after an attempt
\* raised, and a ladder without the check of line 231)
AfterAttemptTwoSteps(k, r) ==
    IF r = "raise" THEN "import_except"
    ELSE IF r = "ok" THEN "import_set_current"
    ELSE IF k < 2 THEN "import_attempt"
    ELSE "import_except"
AfterAttemptAlwaysRetry(k, r) ==
    IF r = "raise" THEN "import_except"
    ELSE IF k < 3 THEN "import_attempt"
    ELSE IF r = "ok" THEN "import_set_current"
    ELSE "import_except"
AfterAttemptRetryOnRaise(k, r) ==
    IF r = "ok" THEN "import_set_current"
    ELSE IF k < 3 THEN "import_attempt"
    ELSE "import_except"
AfterAttemptNoFinalCheck(k, r) ==
    IF r = "raise" THEN "import_except"
    ELSE IF r = "ok" THEN "import_set_current"
    ELSE IF k < 3 THEN "import_attempt"
    ELSE "import_set_current"
AfterAttempt(k, r) ==
    IF r = "raise" THEN "import_except"
    ELSE IF r = "ok" THEN "import_set_current"
    ELSE IF k < 3 THEN "import_attempt"
    ELSE "import_except"

\* lines 214, 224, 229: ImportTimelineFromFile(str(otio_path), import_options);
\* the timeline it returns is one the host has just created, so its handle
\* is not the one the connection holds
ImportAttempt ==
    /\ pc = "import_attempt"
    /\ \E r \in Replies, t \in Timelines \ {current_timeline} :
         LET k == loc.attempt + 1
             next == AfterAttempt(k, r)
         IN  /\ HostCall("import", "MediaPool.ImportTimelineFromFile",
                         ImportOptions(k, loc.timeline_name, loc.otio_path), r, Failure(r), TRUE)
             /\ pc' = next
             /\ loc' = [loc EXCEPT
                          !.attempt = k,
                          !.new_timeline = IF r = "ok" THEN t ELSE None,
                          !.err = IF next # "import_except" THEN ""
                                  ELSE IF r = "raise" THEN "host"
                                  ELSE "all_attempts_failed"]
    /\ UNCHANGED <<exit_status, msg>>
    /\ UNCHANGED connVars
    /\ UNCHANGED restVars

\* line 238: the connection's reference after SetCurrentTimeline returned
\* (the first two variants: an import_otio without that assignment, and one
\* that drops the reference)
ConnectionTimelineKept(old, new) == old
ConnectionTimelineDropped(old, new) == None
ConnectionTimelineAfterImport(old, new) == new

\* lines 236-238: SetCurrentTimeline(new_timeline) and the update of the
\* connection's reference
ImportSetCurrentTimeline ==
    /\ pc = "import_set_current"
    /\ \E r \in Replies :
         /\ HostCall("import", "Project.SetCurrentTimeline", loc.new_timeline, r, Failure(r), TRUE)
         /\ IF r = "raise"
            THEN ImportRaise("host") /\ current_timeline' = current_timeline
            ELSE /\ pc' = "import_info"
                 /\ loc' = [loc EXCEPT !.info_idx = 1, !.phase = "info"]
                 /\ current_timeline' =
                        ConnectionTimelineAfterImport(current_timeline, loc.new_timeline)
    /\ UNCHANGED <<exit_status, msg, resolve, project_manager, current_project>>
    /\ UNCHANGED restVars

(***************************************************************************)
(* The two walks over the tracks and items of the new timeline: lines      *)
(* 256-268 of import_otio (phase "info") and lines 297-315 of              *)
(* _relink_offline_clips (phase "relink").  An exception in phase "info"   *)
(* reaches import_menu's handler; in phase "relink" it is caught at 345    *)
(* and import_otio goes on to return True.                                 *)
(***************************************************************************)
At(label, l) == [pc |-> label, loc |-> l]

\* l with the variables of a walk (counts, track, items, item) forgotten
NoWalk(l) ==
    [l EXCEPT !.info_idx = 1, !.video_tracks = PyInt(0), !.audio_tracks = PyInt(0),
              !.kind = "video", !.track_idx = 0, !.n_items = 0, !.item_idx = 0]

\* where an exception inside a walk goes: to the handler at 283 from the
\* queries of lines 241-272, to the handler at 345 (and on to line 281) from
\* _relink_offline_clips (the first variant: a relink without handler)
RaiseInPropagates(l, detail) ==
    At("import_except", [NoWalk(l) EXCEPT !.err = detail])
RaiseIn(l, detail) ==
    IF l.phase = "info" THEN At("import_except", [NoWalk(l) EXCEPT !.err = detail])
    ELSE At("import_return", NoWalk(l))

ListPc(l) == IF l.phase = "info" THEN "info_list" ELSE "relink_list"
ItemPc(l) == IF l.phase = "info" THEN "info_item" ELSE "relink_item"

\* after the last track: line 270 resp. line 317
LoopsDone(l) ==
    IF l.phase = "info" THEN At("relink_pool", NoWalk(l))
    ELSE IF l.have_offline THEN At("relink_clips", NoWalk(l))
    ELSE At("import_return", NoWalk(l))

\* range(1, audio_tracks + 1), lines 263 and 308
StartAudio(l) ==
    IF l.audio_tracks.kind = "none" THEN RaiseIn(l, "type_error")
    ELSE IF l.audio_tracks.val >= 1
    THEN At(ListPc(l), [l EXCEPT !.kind = "audio", !.track_idx = 1,
                                 !.n_items = 0, !.item_idx = 0])
    ELSE LoopsDone(l)

\* range(1, video_tracks + 1), lines 256 and 297
StartVideo(l) ==
    IF l.video_tracks.kind = "none" THEN RaiseIn(l, "type_error")
    ELSE IF l.video_tracks.val >= 1
    THEN At(ListPc(l), [l EXCEPT !.kind = "video", !.track_idx = 1])
    ELSE StartAudio(l)

TrackCount(l) == IF l.kind = "video" THEN l.video_tracks.val ELSE l.audio_tracks.val

NextTrack(l) ==
    IF l.track_idx < TrackCount(l)
    THEN At(ListPc(l), [l EXCEPT !.track_idx = @ + 1, !.n_items = 0, !.item_idx = 0])
    ELSE IF l.kind = "video" THEN StartAudio(l)
    ELSE LoopsDone(l)

NextItem(l) ==
    IF l.item_idx < l.n_items
    THEN At(ItemPc(l), [l EXCEPT !.item_idx = @ + 1])
    ELSE NextTrack(l)

TrackId(l) == l.kind \o ":" \o Dec(l.track_idx)
ItemId(l) == TrackId(l) \o ":" \o Dec(l.item_idx)

\* GetTrackCount / GetItemListInTrack reply a number or None
CountReply(r, n) == IF r = "ok" THEN PyInt(n) ELSE PyNone

\* lines 241-244: the queries of import_otio's report
ImportInfoCalls ==
    <<"Timeline.GetTrackCount:video", "Timeline.GetTrackCount:audio",
      "Timeline.GetStartFrame", "Timeline.GetEndFrame">>

\* lines 241-256: one query of ImportInfoCalls; after the last one the walk
\* over the video tracks starts
ImportInfoStep ==
    /\ pc = "import_info"
    /\ \E r \in Replies, n \in 0..MaxTracks :
         LET id == ImportInfoCalls[loc.info_idx]
             l == [loc EXCEPT
                     !.info_idx = @ + 1,
                     !.video_tracks = IF loc.info_idx = 1 THEN CountReply(r, n) ELSE @,
                     !.audio_tracks = IF loc.info_idx = 2 THEN CountReply(r, n) ELSE @]
             go == IF r = "raise" THEN RaiseIn(loc, "host")
                   ELSE IF loc.info_idx < Len(ImportInfoCalls) THEN At("import_info", l)
                   ELSE StartVideo(l)
         IN  /\ HostCall("info", id, loc.new_timeline, r,
                         Raised(r) \/ (r = "none" /\ loc.info_idx <= 2), FALSE)
             /\ pc' = go.pc
             /\ loc' = go.loc
    /\ UNCHANGED <<exit_status, msg>>
    /\ UNCHANGED connVars
    /\ UNCHANGED restVars

\* lines 257-258 and 264-265: GetItemListInTrack in import_otio
InfoGetItemList ==
    /\ pc = "info_list"
    /\ \E r \in Replies, n \in 0..MaxItems :
         LET go == IF r = "raise" THEN RaiseIn(loc, "host")
                   ELSE IF r = "none" THEN RaiseIn(loc, "type_error")
                   ELSE IF n >= 1 THEN At("info_item", [loc EXCEPT !.n_items = n, !.item_idx = 1])
                   ELSE NextTrack(loc)
         IN  /\ HostCall("info", "Timeline.GetItemListInTrack:" \o TrackId(loc),
                         loc.new_timeline, r, Failure(r), FALSE)
             /\ pc' = go.pc
             /\ loc' = go.loc
    /\ UNCHANGED <<exit_status, msg>>
    /\ UNCHANGED connVars
    /\ UNCHANGED restVars

\* lines 259-261 and 266-268: GetMediaPoolItem in import_otio
InfoGetMediaPoolItem ==
    /\ pc = "info_item"
    /\ \E r \in Replies :
         LET go == IF r = "raise" THEN RaiseIn(loc, "host") ELSE NextItem(loc)
         IN  /\ HostCall("info", "Item.GetMediaPoolItem:" \o ItemId(loc),
                         loc.new_timeline, r, Raised(r), FALSE)
             /\ pc' = go.pc
             /\ loc' = go.loc
    /\ UNCHANGED <<exit_status, msg>>
    /\ UNCHANGED connVars
    /\ UNCHANGED restVars

(***************************************************************************)
(* OTIOManager._relink_offline_clips (lines 286-347); every way out of it  *)
(* returns to line 278 of import_otio, which returns True.                 *)
(***************************************************************************)
\* line 289: GetMediaPool()
RelinkGetMediaPool ==
    /\ pc = "relink_pool"
    /\ \E r \in Replies :
         /\ HostCall("relink", "Project.GetMediaPool", NoArg, r, Failure(r), TRUE)
         /\ IF r = "raise" THEN pc' = "import_return" /\ loc' = loc
            ELSE /\ pc' = "relink_counts"
                 /\ loc' = [loc EXCEPT !.relink_pool = r, !.info_idx = 1,
                                       !.phase = "relink", !.have_offline = FALSE]
    /\ UNCHANGED <<exit_status, msg>>
    /\ UNCHANGED connVars
    /\ UNCHANGED restVars

RelinkCountCalls == <<"Timeline.GetTrackCount:video", "Timeline.GetTrackCount:audio">>

\* lines 293-297: the two GetTrackCount calls; after them the walk starts
RelinkTrackCounts ==
    /\ pc = "relink_counts"
    /\ \E r \in Replies, n \in 0..MaxTracks :
         LET id == RelinkCountCalls[loc.info_idx]
             l == [loc EXCEPT
                     !.info_idx = @ + 1,
                     !.video_tracks = IF loc.info_idx = 1 THEN CountReply(r, n) ELSE @,
                     !.audio_tracks = IF loc.info_idx = 2 THEN CountReply(r, n) ELSE @]
             go == IF r = "raise" THEN RaiseIn(loc, "host")
                   ELSE IF loc.info_idx < Len(RelinkCountCalls) THEN At("relink_counts", l)
                   ELSE StartVideo(l)
         IN  /\ HostCall("relink", id, loc.new_timeline, r, Failure(r), FALSE)
             /\ pc' = go.pc
             /\ loc' = go.loc
    /\ UNCHANGED <<exit_status, msg>>
    /\ UNCHANGED connVars
    /\ UNCHANGED restVars

\* lines 298-299 and 309-310: GetItemListInTrack
RelinkGetItemList ==
    /\ pc = "relink_list"
    /\ \E r \in Replies, n \in 0..MaxItems :
         LET go == IF r = "raise" THEN RaiseIn(loc, "host")
                   ELSE IF r = "none" THEN RaiseIn(loc, "type_error")
                   ELSE IF n >= 1 THEN At("relink_item", [loc EXCEPT !.n_items = n, !.item_idx = 1])
                   ELSE NextTrack(loc)
         IN  /\ HostCall("relink", "Timeline.GetItemListInTrack:" \o TrackId(loc),
                         loc.new_timeline, r, Failure(r), FALSE)
             /\ pc' = go.pc
             /\ loc' = go.loc
    /\ UNCHANGED <<exit_status, msg>>
    /\ UNCHANGED connVars
    /\ UNCHANGED restVars

\* lines 300-301 and 311-312: GetMediaPoolItem
RelinkGetMediaPoolItem ==
    /\ pc = "relink_item"
    /\ \E r \in Replies :
         LET go == IF r = "raise" THEN RaiseIn(loc, "host")
                   ELSE IF r = "none" THEN NextItem(loc)
                   ELSE At("relink_clip_name", loc)
         IN  /\ HostCall("relink", "Item.GetMediaPoolItem:" \o ItemId(loc),
                         loc.new_timeline, r, Raised(r), FALSE)
             /\ pc' = go.pc
             /\ loc' = go.loc
    /\ UNCHANGED <<exit_status, msg>>
    /\ UNCHANGED connVars
    /\ UNCHANGED restVars

\* lines 303-304 and 313-314: GetName() and the test for "Media Offline";
\* the reply "offline" is a name that contains it, "none" is None
RelinkGetClipName ==
    /\ pc = "relink_clip_name"
    /\ \E r \in Replies \cup {"offline"} :
         LET go == IF r = "raise" THEN RaiseIn(loc, "host")
                   ELSE IF r = "none" THEN RaiseIn(loc, "type_error")
                   ELSE IF r = "offline" THEN NextItem([loc EXCEPT !.have_offline = TRUE])
                   ELSE At("relink_clip_path", loc)
         IN  /\ HostCall("relink", "MediaPoolItem.GetName:" \o ItemId(loc),
                         loc.new_timeline, r, r \in {"raise", "none"}, FALSE)
             /\ pc' = go.pc
             /\ loc' = go.loc
    /\ UNCHANGED <<exit_status, msg>>
    /\ UNCHANGED connVars
    /\ UNCHANGED restVars

\* lines 304-305 and 314-315: GetClipProperty("File Path")
RelinkGetClipProperty ==
    /\ pc = "relink_clip_path"
    /\ \E r \in Replies :
         LET go == IF r = "raise" THEN RaiseIn(loc, "host")
                   ELSE IF r = "none" THEN NextItem([loc EXCEPT !.have_offline = TRUE])
                   ELSE NextItem(loc)
         IN  /\ HostCall("relink", "MediaPoolItem.GetClipProperty:" \o ItemId(loc),
                         loc.new_timeline, r, Raised(r), FALSE)
             /\ pc' = go.pc
             /\ loc' = go.loc
    /\ UNCHANGED <<exit_status, msg>>
    /\ UNCHANGED connVars
    /\ UNCHANGED restVars

\* lines 317-326: RelinkClips(offline_items, source_path); when line 289
\* returned None the attribute access raises before any call
RelinkClips ==
    /\ pc = "relink_clips"
    /\ IF loc.relink_pool # "ok"
       THEN pc' = "import_return" /\ NoHostCall
       ELSE \E r \in Replies :
              /\ HostCall("relink", "MediaPool.RelinkClips", PathParent(loc.otio_path), r, Failure(r), TRUE)
              /\ pc' = IF r = "raise" THEN "import_return" ELSE "relink_reconform"
    /\ loc' = loc
    /\ UNCHANGED <<exit_status, msg>>
    /\ UNCHANGED connVars
    /\ UNCHANGED restVars

\* lines 328-341: ImportIntoTimeline, inside its own try block
RelinkReconform ==
    /\ pc = "relink_reconform"
    /\ \E r \in Replies :
         HostCall("relink", "Timeline.ImportIntoTimeline", PathParent(loc.otio_path), r, Failure(r), TRUE)
    /\ pc' = "import_return"
    /\ loc' = loc
    /\ UNCHANGED <<exit_status, msg>>
    /\ UNCHANGED connVars
    /\ UNCHANGED restVars

(***************************************************************************)
(* The interactive tool: sys.exit(main_menu()), lines 496-548.             *)
(***************************************************************************)
Init ==
    /\ pc = "start"
    /\ exit_status = "running"
    /\ resolve = None
    /\ project_manager = None
    /\ current_project = None
    /\ current_timeline = None
    /\ msg = NoMsg
    /\ op = "none"
    /\ calls = <<>>
    /\ failed = {}
    /\ lastCall = NoCall
    /\ loc = LocInit
    /\ choice = <<>>
    /\ env \in [is64bit : BOOLEAN, modules_isdir : BOOLEAN]
    /\ tc_frames = PyNone
    /\ tc_fps = PyNone
    /\ tc_result = NoResult

Next ==
    \/ SetupEnvironment
    \/ ConnectImportModule
    \/ ConnectScriptapp
    \/ ConnectGetProjectManager
    \/ ConnectGetCurrentProject
    \/ ConnectGetCurrentTimeline
    \/ ConnectInfoStep
    \/ MainExcept
    \/ MenuChoice
    \/ MenuEof
    \/ ExportMenuGetName
    \/ ExportMenuConfirm
    \/ ExportEnsureAndName
    \/ ExportMkdir
    \/ ExportCall
    \/ ExportMenuSuccess
    \/ ExportMenuExcept
    \/ ImportMenuPath
    \/ ImportMenuName
    \/ ImportMenuConfirm
    \/ ImportOtioValidate
    \/ ImportGetMediaPool
    \/ PreimportGetMediaStorage
    \/ PreimportGetMediaPool
    \/ PreimportScan
    \/ PreimportImportMedia
    \/ ImportAttempt
    \/ ImportSetCurrentTimeline
    \/ ImportInfoStep
    \/ InfoGetItemList
    \/ InfoGetMediaPoolItem
    \/ RelinkGetMediaPool
    \/ RelinkTrackCounts
    \/ RelinkGetItemList
    \/ RelinkGetMediaPoolItem
    \/ RelinkGetClipName
    \/ RelinkGetClipProperty
    \/ RelinkClips
    \/ RelinkReconform
    \/ ImportMenuSuccess
    \/ ImportMenuExcept

Spec == Init /\ [][Next]_vars

(***************************************************************************)
(* frames_to_timecode applied to bounded inputs.                           *)
(***************************************************************************)
MenuIdle ==
    /\ pc = "idle"
    /\ exit_status = "running"
    /\ resolve = None
    /\ project_manager = None
    /\ current_project = None
    /\ current_timeline = None
    /\ msg = NoMsg
    /\ op = "none"
    /\ calls = <<>>
    /\ failed = {}
    /\ lastCall = NoCall
    /\ loc = LocInit
    /\ choice = <<>>
    /\ env = [is64bit |-> TRUE, modules_isdir |-> TRUE]

TcInit ==
    /\ MenuIdle
    /\ tc_frames \in TcFramesInputs
    /\ tc_fps \in TcFpsInputs
    /\ tc_result = NoResult

\* a call frames_to_timecode(tc_frames, tc_fps)
TcConvert ==
    /\ tc_result = NoResult
    /\ tc_result' = frames_to_timecode(tc_frames, tc_fps)
    /\ UNCHANGED <<tc_frames, tc_fps>>
    /\ UNCHANGED menuVars

TcNext == TcConvert

SpecTC == TcInit /\ [][TcNext]_vars

(***************************************************************************)
(* Properties of frames_to_timecode (specification SpecTC).                *)
(***************************************************************************)
TcDone == tc_result # NoResult

StartupPcs ==
    {"start", "connect", "connect_scriptapp", "connect_pm", "connect_project",
     "connect_timeline", "connect_info"}
\* positions inside export_menu and inside import_menu
ExportPcs ==
    {"export_menu", "export_confirm", "export_current_timeline", "export_mkdir",
     "export_call", "export_done", "export_except"}
ImportPcs ==
    {"import_menu", "import_name", "import_confirm", "import_otio", "import_get_pool",
     "preimport_storage", "preimport_pool", "preimport_scan", "preimport_import_media",
     "import_attempt", "import_set_current", "import_info", "info_list", "info_item",
     "relink_pool", "relink_counts", "relink_list", "relink_item", "relink_clip_name",
     "relink_clip_path", "relink_clips", "relink_reconform", "import_return",
     "import_except"}

IsAttempt(c) == c.name = "MediaPool.ImportTimelineFromFile"
\* the ImportTimelineFromFile calls of the current operation, in order
Attempts == SelectSeq(calls, IsAttempt)

AllAttemptsFailedReported ==
    \/ pc = "import_except" /\ loc.err = "all_attempts_failed"
    \/ msg = Msg("import_error", "all_attempts_failed")

\* C1: the first ImportTimelineFromFile call carries the full options
\* (timelineName, importSourceClips = True, sourceClipsPath = the parent
\* directory of the OTIO file), the second one importSourceClips = False and
\* no source path, the third one an empty dictionary, each one made after
\* the one before failed; the 'all import attempts failed' error is reported
\* only when three attempts were made and all three failed.
ImportLadderOrder ==
    LET a == Attempts
    IN  /\ Len(a) >= 1 =>
               /\ DOMAIN a[1].arg = {"timelineName", "importSourceClips", "sourceClipsPath",
                                     "sourceClipsFolders", "interlaceProcessing"}
               /\ a[1].arg.importSourceClips = TRUE
               /\ a[1].arg.timelineName # <<>>
               /\ a[1].arg.sourceClipsPath \in {<<"d">>, <<".">>}
               /\ (pc \in ImportPcs /\ loc.otio_path # <<>> =>
                      /\ a[1].arg.timelineName = loc.timeline_name
                      /\ (a[1].arg.sourceClipsPath = <<"d">>) = (Head(loc.otio_path) = "d"))
        /\ Len(a) >= 2 =>
               /\ a[1].res = "none"
               /\ DOMAIN a[2].arg = {"timelineName", "importSourceClips", "interlaceProcessing"}
               /\ a[2].arg.importSourceClips = FALSE
               /\ a[2].arg.timelineName = a[1].arg.timelineName
        /\ Len(a) >= 3 =>
               /\ a[2].res = "none"
               /\ DOMAIN a[3].arg = {}
        /\ Len(a) <= 3
        /\ AllAttemptsFailedReported =>
               /\ Len(a) = 3
               /\ \A k \in 1..3 : a[k].res = "none"

\* import_menu has printed the error of an import whose three attempts failed
ImportLadderExhausted ==
    /\ pc = "menu"
    /\ msg = Msg("import_error", "all_attempts_failed")
    /\ Len(Attempts) = 3

\* import_otio has run to its end after obtaining a media pool
ImportRanWithPool ==
    /\ pc = "menu"
    /\ msg.kind \in {"import_ok", "import_error"}
    /\ calls # <<>>
    /\ calls[1].name = "Project.GetMediaPool"
    /\ calls[1].res = "ok"

\* C2: an import_otio that passed validation and obtained a media pool makes
\* between 1 and 3 ImportTimelineFromFile calls; a call is followed by
\* another one only if it returned a falsy value, so none follows a call
\* that returned a timeline (or raised).
ImportAttemptCount ==
    LET a == Attempts
    IN  /\ Len(a) <= 3
        /\ \A k \in 1..Len(a) : k < Len(a) => a[k].res = "none"
        /\ ImportRanWithPool => Len(a) \in 1..3
        /\ \A i \in 1..Len(calls) :
               (IsAttempt(calls[i]) /\ calls[i].res = "ok") =>
                   \A j \in (i + 1)..Len(calls) : ~IsAttempt(calls[j])

\* an import succeeded at its second attempt and made no third one
ImportSecondAttemptWon ==
    /\ ImportRanWithPool
    /\ msg.kind = "import_ok"
    /\ Len(Attempts) = 2
    /\ Attempts[1].res = "none"
    /\ Attempts[2].res = "ok"

HasCall(name, res) == \E i \in 1..Len(calls) : calls[i].name = name /\ calls[i].res = res

\* environment setup or connect has failed
StartupFailed ==
    \/ ~env.is64bit
    \/ ~env.modules_isdir
    \/ HasCall("scriptapp", "none")
    \/ HasCall("ProjectManager.GetCurrentProject", "none")
    \/ (pc = "main_except" /\ loc.err # "eof")
    \/ (pc = "exited" /\ msg.kind = "error" /\ msg.detail # "eof")

\* C6: when environment setup or connect fails (32-bit interpreter, modules
\* path missing, host not reachable, no project open, or any exception in
\* connect) the menu loop is never entered, no export or import host call
\* is made, and main_menu returns 1.
StartupFailureExitsOne ==
    /\ StartupFailed =>
           /\ pc \in StartupPcs \cup {"main_except", "exited"}
           /\ choice = <<>>
           /\ \A i \in 1..Len(calls) : calls[i].op = "connect"
           /\ pc = "exited" => exit_status = "1"
           /\ pc # "exited" => exit_status = "running"
    /\ pc \in {"menu"} \cup ExportPcs \cup ImportPcs =>
           /\ env.is64bit /\ env.modules_isdir
           /\ resolve # None /\ project_manager # None /\ current_project # None

\* main_menu has returned 1 because the interpreter is a 32-bit one
ExitedOn32Bit ==
    /\ ~env.is64bit
    /\ pc = "exited"
    /\ exit_status = "1"
    /\ msg = Msg("error", "not_64bit")

\* C7: once the menu loop runs, a failure inside an export or import
\* operation is turned into a printed message and control returns to the
\* menu prompt: no step of export_menu or import_menu leaves the loop or
\* sets an exit status, and their handlers print the error and go back to
\* the menu.
OperationFailureReturnsToMenu ==
    [][ /\ pc \in ExportPcs \cup ImportPcs =>
              /\ pc' \in ExportPcs \cup ImportPcs \cup {"menu"}
              /\ exit_status' = "running"
        /\ pc = "export_except" => (pc' = "menu" /\ msg' = Msg("export_error", loc.err))
        /\ pc = "import_except" => (pc' = "menu" /\ msg' = Msg("import_error", loc.err))
        /\ (pc = "export_call" /\ lastCall'.id = "Timeline.Export" /\ "Timeline.Export" \in failed')
              => pc' = "export_except"
        /\ (pc = "import_attempt" /\ loc'.attempt = 3 /\ loc'.new_timeline = None)
              => pc' = "import_except"
      ]_vars

\* a failed export was reported and the menu prompt is shown again
ExportErrorBackAtMenu ==
    /\ pc = "menu"
    /\ exit_status = "running"
    /\ msg = Msg("export_error", "export_operation_failed")
    /\ HasCall("Timeline.Export", "none")

\* C8: the menu accepts exactly the choices 1, 2 and 3: '1' goes to the
\* export branch (export_menu, or the refusal when the connection holds no
\* timeline), '2' starts import_menu, '3' ends the loop with status 0; any
\* other entry makes no host call, changes nothing of the connection and
\* prompts again; main_menu returns 0 only through choice '3'.
MenuAcceptsOneTwoThree ==
    [][ /\ (pc = "menu" /\ pc' # "main_except") =>
              /\ choice' = <<"1">> =>
                     \/ pc' = "export_menu" /\ current_timeline # None
                     \/ pc' = "menu" /\ current_timeline = None
                            /\ msg' = Msg("no_timeline", "")
              /\ choice' = <<"2">> => pc' = "import_menu"
              /\ choice' = <<"3">> => (pc' = "exited" /\ exit_status' = "0")
              /\ choice' \notin {<<"1">>, <<"2">>, <<"3">>} =>
                     /\ pc' = "menu"
                     /\ msg' = Msg("invalid_choice", "")
                     /\ exit_status' = "running"
              /\ choice' # <<"1">> /\ choice' # <<"2">> =>
                     /\ calls' = <<>>
                     /\ lastCall' = NoCall
                     /\ UNCHANGED connVars
        /\ (exit_status' = "0" /\ exit_status # "0") => (pc = "menu" /\ choice' = <<"3">>)
        /\ pc # "menu" => choice' = choice
      ]_vars

\* an entry other than 1, 2, 3 was answered with the prompt again
InvalidChoicePromptsAgain ==
    /\ pc = "menu"
    /\ choice = <<"4">>
    /\ msg = Msg("invalid_choice", "")
    /\ exit_status = "running"

\* C9: Export is never issued while the connection holds no current
\* timeline: menu choice '1' is refused in main_menu, and export_menu and
\* ensure_timeline refuse as well, before any Export call.
ExportNeedsTimeline ==
    /\ \A i \in 1..Len(calls) : calls[i].name = "Timeline.Export" => calls[i].arg # None
    /\ pc \in ExportPcs \ {"export_except"} => current_timeline # None
    /\ (pc = "menu" /\ msg = Msg("no_timeline", "")) =>
           (choice = <<"1">> /\ current_timeline = None /\ calls = <<>>)
    /\ ExportMenuNoTimeline(None)
    /\ EnsureTimelineRaises(None)
    /\ \A t \in Timelines : ~ExportMenuNoTimeline(t) /\ ~EnsureTimelineRaises(t)

\* choice '1' was refused because no timeline is open
ExportRefusedWithoutTimeline ==
    /\ pc = "menu"
    /\ choice = <<"1">>
    /\ current_timeline = None
    /\ msg = Msg("no_timeline", "")

\* the paths of the model that name an .otio file (in any letter case)
OtioPaths ==
    {<<"d", "/", "a", ".", "o", "t", "i", "o">>, <<"a", ".", "O", "T", "I", "O">>}
\* the path entered is empty, lacks the .otio extension, or names a file
\* that the last check found missing
Malformed(l) == l.otio_path \notin OtioPaths \/ ~l.exists

\* C10: a malformed import path (empty, not existing, or without the .otio
\* extension in any letter case) is rejected before any host call:
\* import_menu and import_otio go no further than their validation, issue
\* no GetMediaPool, ImportMedia or ImportTimelineFromFile call and leave
\* connection.current_timeline unchanged.
MalformedPathRejected ==
    [][ (pc \in ImportPcs /\ Malformed(loc')) =>
            /\ pc' \in {"menu", "import_except"}
            /\ calls' = <<>>
            /\ current_timeline' = current_timeline
      ]_vars

\* a path without the .otio extension was rejected by import_menu
BadExtensionRejected ==
    /\ pc = "menu"
    /\ msg = Msg("import_bad_ext", "")
    /\ loc.otio_path = <<"d", "/", "a", ".", "t", "x", "t">>
    /\ loc.exists
    /\ calls = <<>>

(***************************************************************************)
(* The results of export_current_timeline and import_otio as their callers *)
(* see them.                                                               *)
(***************************************************************************)
\* an operation of the menu has ended without success: Export replied with
\* a falsy value, or no import attempt returned a timeline
ExportUnsuccessful ==
    /\ pc = "menu"
    /\ HasCall("Timeline.Export", "none")
ImportUnsuccessful ==
    /\ pc = "menu"
    /\ Len(Attempts) = 3
    /\ \A k \in 1..3 : Attempts[k].res = "none"

\* C11: export_current_timeline and import_otio return False when the
\* operation does not succeed (and True when it does), so that after an
\* unsuccessful export or import the caller's else branch has printed
\* 'Export failed!' resp. 'Import failed!'.
FailureReturnsFalse ==
    /\ ExportUnsuccessful => msg = Msg("export_failed", "")
    /\ ImportUnsuccessful => msg = Msg("import_failed", "")
    /\ (pc = "menu" /\ msg.kind = "export_ok") => HasCall("Timeline.Export", "ok")
    /\ (pc = "menu" /\ msg.kind = "import_ok") => HasCall("MediaPool.ImportTimelineFromFile", "ok")

(***************************************************************************)
(* import_otio and the connection's current timeline.                      *)
(***************************************************************************)
IsSetCurrent(c) == c.name = "Project.SetCurrentTimeline"
\* the SetCurrentTimeline calls of the current operation, in order
SetCurrents == SelectSeq(calls, IsSetCurrent)

\* import_otio has returned True
ImportSucceeded ==
    \/ pc = "import_return"
    \/ pc = "menu" /\ msg.kind = "import_ok"

\* C14: after import_otio succeeded, SetCurrentTimeline has been called
\* exactly once, after the attempt that returned a timeline and with that
\* timeline, and connection.current_timeline refers to it; so a following
\* choice '1' is dispatched to export_menu, and every Export call is made
\* on the connection's current timeline.
ImportedTimelineIsCurrent ==
    /\ pc = "import_set_current" =>
           /\ loc.new_timeline \in Timelines
           /\ Attempts[Len(Attempts)].res = "ok"
           /\ SetCurrents = <<>>
    /\ ImportSucceeded =>
           /\ Len(SetCurrents) = 1
           /\ SetCurrents[1].arg \in Timelines
           /\ current_timeline = SetCurrents[1].arg
           /\ Attempts[Len(Attempts)].res = "ok"
           /\ \E i \in 1..Len(calls) :
                  /\ IsAttempt(calls[i]) /\ calls[i].res = "ok"
                  /\ IsSetCurrent(calls[i + 1])
           /\ Dispatch(<<"1">>, current_timeline) = "export_menu"
    /\ pc = "import_return" => loc.new_timeline = current_timeline
    /\ \A i \in 1..Len(calls) :
           calls[i].name = "Timeline.Export" => calls[i].arg = current_timeline

\* an import replaced the connection's timeline by the imported one, and
\* import_menu has reported the success
ImportReplacedTimeline ==
    /\ pc = "menu"
    /\ msg.kind = "import_ok"
    /\ Len(SetCurrents) = 1
    /\ SetCurrents[1].arg = "2"
    /\ current_timeline = "2"

(***************************************************************************)
(* _preimport_media_files and _relink_offline_clips within import_otio.    *)
(***************************************************************************)
PreimportPcs ==
    {"preimport_storage", "preimport_pool", "preimport_scan", "preimport_import_media"}
RelinkPcs ==
    {"relink_pool", "relink_counts", "relink_list", "relink_item", "relink_clip_name",
     "relink_clip_path", "relink_clips", "relink_reconform"}

IsPreimport(c) == c.op = "preimport"

\* C15: the pre-import of media files is performed before the first
\* ImportTimelineFromFile attempt (its calls precede every attempt and none
\* follows one), and no outcome of it prevents the first attempt: whatever
\* its calls reply, control stays in the pre-import or arrives at the first
\* attempt, which is then made.
PreimportBeforeFirstAttempt ==
    [][ /\ \A i \in 1..Len(calls') :
              IsAttempt(calls'[i]) =>
                  /\ \E j \in 1..(i - 1) : IsPreimport(calls'[j])
                  /\ \A j \in (i + 1)..Len(calls') : ~IsPreimport(calls'[j])
        /\ (pc = "import_get_pool" /\ pc' # "import_except") => pc' = "preimport_storage"
        /\ pc \in PreimportPcs =>
              /\ pc' \in PreimportPcs \cup {"import_attempt"}
              /\ pc' = "import_attempt" => (loc'.attempt = 0 /\ Attempts = <<>>)
              /\ UNCHANGED connVars
        /\ (pc = "import_attempt" /\ loc.attempt = 0) =>
              /\ Len(calls') = Len(calls) + 1
              /\ IsAttempt(calls'[Len(calls')])
              /\ calls'[Len(calls')].arg = ImportOptions(1, loc.timeline_name, loc.otio_path)
      ]_vars

\* the first call of the pre-import raised and the first attempt was made
\* all the same
AttemptAfterFailedPreimport ==
    /\ HasCall("Resolve.GetMediaStorage", "raise")
    /\ Len(Attempts) = 1
    /\ calls[Len(calls)].name = "MediaPool.ImportTimelineFromFile"

IsRelink(c) == c.op = "relink"

\* C16: relinking is attempted only after an import attempt returned a
\* timeline and that timeline was made current (SetCurrentTimeline called
\* with it, connection.current_timeline set to it), and no failure inside
\* the relink or the reconform changes the result: from every position of
\* _relink_offline_clips control stays in it or reaches the return True of
\* line 281, the connection is left alone, and import_menu then reports the
\* success.
RelinkNeverFailsImport ==
    [][ /\ (pc' \in RelinkPcs \/ \E i \in 1..Len(calls') : IsRelink(calls'[i])) =>
              /\ \E i \in 1..Len(calls') :
                     /\ IsAttempt(calls'[i]) /\ calls'[i].res = "ok"
                     /\ IsSetCurrent(calls'[i + 1])
                     /\ calls'[i + 1].res # "raise"
                     /\ calls'[i + 1].arg = current_timeline'
                     /\ \A j \in 1..i : ~IsRelink(calls'[j])
              /\ current_timeline' \in Timelines
        /\ pc \in RelinkPcs =>
              /\ pc' \in RelinkPcs \cup {"import_return"}
              /\ UNCHANGED connVars
        /\ pc = "import_return" => (pc' = "menu" /\ msg' = Msg("import_ok", ""))
      ]_vars

\* an import was reported as successful although RelinkClips raised
ImportOkAfterFailedRelink ==
    /\ pc = "menu"
    /\ msg = Msg("import_ok", "")
    /\ HasCall("MediaPool.RelinkClips", "raise")

(***************************************************************************)
(* The confirmation prompts of export_menu and import_menu.                *)
(***************************************************************************)
\* the answer, as get_user_input returns it (stripped), is neither empty nor
\* 'y' nor 'yes' in any letter case
Declines(answer) ==
    LET a == Lower(Strip(answer))
    IN  a \notin {<<>>, <<"y">>, <<"y", "e", "s">>}

IsTransfer(c) ==
    c.name \in {"Timeline.Export", "MediaPool.ImportTimelineFromFile", "MediaPool.ImportMedia"}

\* C17: an answer to the confirmation prompt of export_menu or import_menu
\* other than 'y' or 'yes' (in any letter case; an empty answer counts as
\* 'y') cancels the operation: control is back at the menu with the
\* 'cancelled' message, no Export, ImportTimelineFromFile or ImportMedia
\* call was made, and the connection is unchanged; this holds until the
\* next menu entry is read.
DecliningCancels ==
    [][ /\ (pc \in {"export_confirm", "import_confirm"} /\ pc' \notin {"export_except", "import_except"}) =>
              /\ loc'.answer \in ConfirmInputs \ {Eof}
              /\ Declines(loc'.answer) =>
                     /\ pc' = "menu"
                     /\ msg' = Msg(IF pc = "export_confirm" THEN "export_cancelled"
                                   ELSE "import_cancelled", "")
                     /\ calls' = calls
                     /\ UNCHANGED connVars
        /\ (pc' = "menu" /\ msg'.kind \in {"export_cancelled", "import_cancelled"}) =>
              /\ Declines(loc'.answer)
              /\ \A i \in 1..Len(calls') : ~IsTransfer(calls'[i])
              /\ UNCHANGED connVars
      ]_vars

\* the answer 'NO' has cancelled an import
ImportDeclined ==
    /\ pc = "menu"
    /\ msg = Msg("import_cancelled", "")
    /\ loc.answer = <<"N", "O">>
    /\ calls = <<>>

(***************************************************************************)
(* import_otio: attempts that raise, and imports that obtain no timeline.  *)
(***************************************************************************)
\* C18: if an ImportTimelineFromFile attempt raises, the ladder is
\* abandoned: no further attempt (and no other host call) is made,
\* import_otio raises (control is in import_menu's handler with the host's
\* error), and the failure is reported, possibly after fewer than three
\* attempts.
RaisingAttemptEndsLadder ==
    [][ /\ \A i \in 1..Len(calls') :
              (IsAttempt(calls'[i]) /\ calls'[i].res = "raise") =>
                  /\ i = Len(calls')
                  /\ pc' \in ImportPcs => (pc' = "import_except" /\ loc'.err = "host")
                  /\ pc' = "menu" => msg' = Msg("import_error", "host")
                  /\ current_timeline' = current_timeline
        /\ (pc = "import_attempt" /\ calls'[Len(calls')].res = "raise") =>
              /\ pc' = "import_except"
              /\ loc'.new_timeline = None
      ]_vars

\* the first attempt raised and the import error was reported after that
\* single attempt
ImportErrorAfterOneAttempt ==
    /\ pc = "menu"
    /\ msg = Msg("import_error", "host")
    /\ Len(Attempts) = 1
    /\ Attempts[1].res = "raise"

\* no ImportTimelineFromFile call of the current import has returned a
\* timeline
NoTimelineObtained(log) == \A i \in 1..Len(log) : ~(IsAttempt(log[i]) /\ log[i].res = "ok")

\* C19: whenever import_otio does not obtain a timeline (validation error,
\* media pool unavailable, all three attempts failing, or an attempt
\* raising), SetCurrentTimeline is never called and the connection's
\* current_timeline, current_project, project_manager and resolve keep
\* their values through every step of the import.
FailedImportLeavesConnection ==
    [][ (pc \in ImportPcs /\ NoTimelineObtained(calls')) =>
            /\ \A i \in 1..Len(calls') : ~IsSetCurrent(calls'[i])
            /\ pc' # "import_set_current"
            /\ pc' \notin RelinkPcs \cup {"import_info", "info_list", "info_item", "import_return"}
            /\ UNCHANGED connVars
            /\ (pc' = "import_except" /\ pc # "import_except") =>
                   loc'.err \in {"eof", "file_not_found", "value_error", "os_error",
                                 "no_media_pool", "all_attempts_failed", "host"}
      ]_vars

\* an import failed for want of a media pool and the connection still holds
\* the timeline it held
ImportFailedWithoutPool ==
    /\ pc = "menu"
    /\ msg = Msg("import_error", "no_media_pool")
    /\ current_timeline = "1"
    /\ SetCurrents = <<>>

(***************************************************************************)
(* Where connection.current_timeline comes from.                           *)
(***************************************************************************)
\* line 238 has been executed in the current import: SetCurrentTimeline was
\* called and did not raise
ReferenceAssigned(log) == \E i \in 1..Len(log) : IsSetCurrent(log[i]) /\ log[i].res # "raise"

\* what holds of connect and of the menu, whatever an import does:
\* GetCurrentTimeline is called only in connect, and at most once;
\* current_timeline changes only in the step of connect that reads it and
\* in the step of import_otio that sets it; while it is None, choice '1' is
\* refused without any host call and does not change it
TimelineReadOnceInConnect ==
    /\ \A i \in 1..Len(calls') :
           calls'[i].name = "Project.GetCurrentTimeline" =>
               /\ calls'[i].op = "connect"
               /\ \A j \in 1..Len(calls') : calls'[j].name = calls'[i].name => j = i
    /\ current_timeline' # current_timeline => pc \in {"connect_timeline", "import_set_current"}
    /\ (pc = "menu" /\ current_timeline = None /\ choice' = <<"1">> /\ pc' # "main_except") =>
           /\ pc' = "menu"
           /\ msg' = Msg("no_timeline", "")
           /\ calls' = <<>>
           /\ current_timeline' = None

\* C20 (as stated): connection.current_timeline is read from the host only
\* once, in connect, and afterwards changes only through a successful
\* import_otio: an import_otio that ends in an exception has not changed
\* it; so without a timeline at connect time choice '1' is refused until an
\* import succeeds.
TimelineChangesOnlyBySuccessfulImport ==
    [][ /\ TimelineReadOnceInConnect
        /\ pc' = "import_except" => ~ReferenceAssigned(calls')
      ]_vars

\* C20 (amended): connection.current_timeline is read from the host only
\* once, in connect, and afterwards changes only at line 238 of
\* import_otio, once an attempt has returned a timeline and
\* SetCurrentTimeline has not raised: it then refers to that timeline,
\* also when import_otio fails afterwards; until then choice '1' is refused
\* when no timeline was open at connect time.
TimelineChangesOnlyAtImportAssignment ==
    [][ /\ TimelineReadOnceInConnect
        /\ (pc = "import_set_current" /\ current_timeline' # current_timeline) =>
               /\ Attempts[Len(Attempts)].res = "ok"
               /\ IsSetCurrent(calls'[Len(calls')])
               /\ calls'[Len(calls')].res # "raise"
               /\ calls'[Len(calls')].arg = loc.new_timeline
               /\ current_timeline' = loc.new_timeline
        /\ (pc' = "import_except" /\ ~ReferenceAssigned(calls')) =>
               current_timeline' = current_timeline
      ]_vars

\* an import failed in the queries that follow line 238: the error was
\* reported and the connection refers to the imported timeline
FailedImportChangedTimeline ==
    /\ pc = "menu"
    /\ msg.kind = "import_error"
    /\ ReferenceAssigned(calls)
    /\ current_timeline = SetCurrents[1].arg
    /\ current_timeline \in Timelines

(***************************************************************************)
(* The linear scripts: taketest.main (taketest.py, lines 446-479) and the  *)
(* module body of davinciapitest.py.  Both go through the stages           *)
(* architecture check, install-path discovery, import of the vendor        *)
(* module, connect, and host queries.  pc says which script runs ("tt_",   *)
(* "api_") and where it is; resolve, project_manager and current_project   *)
(* are the fields of DaVinciResolver, resp. the globals of the same names  *)
(* in davinciapitest.py; calls is the log of the function in progress.     *)
(***************************************************************************)
\* the call `id` is issued within function newop and replies res; the log
\* starts afresh with the first call of a function, and holds the call when
\* logged (the queries of the items of a track are not); failed is not
\* kept: no function of these scripts issues a call again after it failed
LinearCall(newop, id, res, logged) ==
    LET log == IF newop = op THEN calls ELSE <<>>
    IN  /\ op' = newop
        /\ failed' = {}
        /\ lastCall' = [id |-> id, again |-> FALSE]
        /\ calls' = IF logged
                    THEN Append(log, [op |-> newop, name |-> id, arg |-> NoArg, res |-> res])
                    ELSE log

\* main, lines 453-458, and davinciapitest.py, lines 12-14, 36-39, 50-57 and
\* 63-71: where the script goes after a stage, on to the next one or to
\* sys.exit(1) (the first variant: a script that goes on after a failure)
AfterStageGoesOn(next, ok) == next
AfterStage(next, ok) == IF ok THEN next ELSE "exited"

\* the end of a stage: the error is printed when it failed
StageEnds(next, ok, detail) ==
    /\ pc' = AfterStage(next, ok)
    /\ exit_status' = IF AfterStage(next, ok) = "exited" THEN "1" ELSE exit_status
    /\ msg' = IF ok THEN msg ELSE Msg("error", detail)

linVars == <<choice, env, tc_frames, tc_fps, tc_result, current_timeline>>

(***************************************************************************)
(* taketest.py: DaVinciResolver.setup_environment and connect.             *)
(***************************************************************************)
\* main, lines 448-450, and setup_environment, lines 26-28
TtArchCheck ==
    /\ pc = "tt_arch"
    /\ StageEnds("tt_paths", env.is64bit, "not_64bit")
    /\ resolve' = None /\ project_manager' = None /\ current_project' = None
    /\ NoHostCall
    /\ UNCHANGED loc
    /\ UNCHANGED linVars

\* setup_environment, lines 30-52
TtPathDiscovery ==
    /\ pc = "tt_paths"
    /\ StageEnds("tt_import", env.modules_isdir, "modules_path_missing")
    /\ NoHostCall
    /\ UNCHANGED <<loc, resolve, project_manager, current_project>>
    /\ UNCHANGED linVars

\* connect, line 58: import DaVinciResolveScript
TtImportModule ==
    /\ pc = "tt_import"
    /\ \E r \in {"ok", "raise"} : StageEnds("tt_scriptapp", r = "ok", "import_error")
    /\ NoHostCall
    /\ UNCHANGED <<loc, resolve, project_manager, current_project>>
    /\ UNCHANGED linVars

\* connect, lines 61-65: scriptapp("Resolve")
TtScriptapp ==
    /\ pc = "tt_scriptapp"
    /\ \E r \in Replies :
         /\ LinearCall("connect", "scriptapp", r, TRUE)
         /\ resolve' = IF r = "ok" THEN "resolve" ELSE None
         /\ StageEnds("tt_pm", r = "ok",
                      IF r = "none" THEN "resolve_not_running" ELSE "host")
    /\ UNCHANGED <<loc, project_manager, current_project>>
    /\ UNCHANGED linVars

\* connect, line 68: GetProjectManager(); a None reply makes line 69 raise
TtGetProjectManager ==
    /\ pc = "tt_pm"
    /\ \E r \in Replies :
         /\ LinearCall("connect", "Resolve.GetProjectManager", r, TRUE)
         /\ project_manager' = IF r = "ok" THEN "project_manager" ELSE None
         /\ StageEnds("tt_project", r = "ok",
                      IF r = "none" THEN "attribute_error" ELSE "host")
    /\ UNCHANGED <<loc, resolve, current_project>>
    /\ UNCHANGED linVars

\* connect, lines 69-72: GetCurrentProject(); None (no project open) is an
\* ordinary reply and connect returns True
TtGetCurrentProject ==
    /\ pc = "tt_project"
    /\ \E r \in Replies :
         /\ LinearCall("connect", "ProjectManager.GetCurrentProject", r, TRUE)
         /\ current_project' = IF r = "ok" THEN "project" ELSE None
         /\ StageEnds("tt_info", r # "raise", "host")
         /\ loc' = LocInit
    /\ UNCHANGED <<resolve, project_manager>>
    /\ UNCHANGED linVars

(***************************************************************************)
(* taketest.py: get_basic_info and the three tests.                        *)
(***************************************************************************)
\* lines 138, 278, 407, 417 and 430: `if not resolver.current_project`, the
\* test is skipped (the first variant: tests that run without a project)
TtSkipsNever(project) == FALSE
TtSkips(project) == project = None

\* get_basic_info, lines 88-98: the calls it makes
TtInfoCalls(project) ==
    IF project # None
    THEN <<"Resolve.GetVersionString", "Project.GetName",
           "Project.GetSetting:timelineFrameRate",
           "Project.GetSetting:timelineResolutionWidth",
           "Project.GetSetting:timelineResolutionHeight">>
    ELSE <<"Resolve.GetVersionString">>

\* get_basic_info, lines 83-102, and print_resolve_info: one call; an
\* exception ends the function at the handler of line 99
TtGetBasicInfo ==
    /\ pc = "tt_info"
    /\ \E r \in Replies :
         LET seq == TtInfoCalls(current_project)
             last == r = "raise" \/ loc.info_idx = Len(seq)
         IN  /\ LinearCall("basic_info", seq[loc.info_idx], r, TRUE)
             /\ pc' = IF last THEN "tt_basic" ELSE "tt_info"
             /\ loc' = IF last THEN LocInit ELSE [loc EXCEPT !.info_idx = @ + 1]
             /\ msg' = IF r = "raise" THEN Msg("basic_info_error", "")
                       ELSE IF last
                       THEN Msg("resolve_info", IF current_project = None
                                                THEN "no_project_open" ELSE "")
                       ELSE msg
    /\ UNCHANGED <<exit_status, resolve, project_manager, current_project>>
    /\ UNCHANGED linVars

\* test_basic_functionality, lines 406-438: the call of each of the three
\* tests and what is skipped without a project
TtBasicCalls ==
    <<"Project.GetTimelineCount", "Project.GetMediaPool", "Project.GetCurrentTimeline">>
TtBasicSkipped == <<"timeline_tests", "media_pool_tests", "current_timeline_test">>

\* test_basic_functionality: test number loc.info_idx
TtBasicTest ==
    /\ pc = "tt_basic"
    /\ LET k == loc.info_idx
           after == IF k < 3 THEN At("tt_basic", [loc EXCEPT !.info_idx = @ + 1])
                    ELSE At("tt_clips", LocInit)
       IN  IF TtSkips(current_project)
           THEN /\ NoHostCall
                /\ msg' = Msg("skipped", TtBasicSkipped[k])
                /\ pc' = after.pc
                /\ loc' = after.loc
           ELSE \E r \in Replies :
                  /\ LinearCall("basic", TtBasicCalls[k], r, TRUE)
                  /\ msg' = Msg(CASE r = "raise" -> "test_failed"
                                  [] r = "none" /\ k = 2 -> "media_pool_not_accessible"
                                  [] r = "none" /\ k = 3 -> "no_timeline_selected"
                                  [] OTHER -> "test_ok", TtBasicSkipped[k])
                  /\ IF k = 3 /\ r = "ok"
                     THEN pc' = "tt_basic_name" /\ loc' = loc
                     ELSE pc' = after.pc /\ loc' = after.loc
    /\ UNCHANGED <<exit_status, resolve, project_manager, current_project>>
    /\ UNCHANGED linVars

\* test_basic_functionality, lines 433-434: GetName() of the timeline
TtBasicTimelineName ==
    /\ pc = "tt_basic_name"
    /\ \E r \in Replies :
         /\ LinearCall("basic", "Timeline.GetName", r, TRUE)
         /\ msg' = Msg(IF r = "raise" THEN "test_failed" ELSE "test_ok",
                       "current_timeline_test")
    /\ pc' = "tt_clips"
    /\ loc' = LocInit
    /\ UNCHANGED <<exit_status, resolve, project_manager, current_project>>
    /\ UNCHANGED linVars

(***************************************************************************)
(* taketest.py: test_timeline_clips_analysis (lines 272-379).              *)
(***************************************************************************)
\* the function is left through the handler of line 375
TtClipsFailed == At("tt_ripple", LocInit)

\* after the last track of a kind: the audio tracks follow the video
\* tracks (line 335), the summary follows the audio tracks (line 371)
TtAfterTracks(l) ==
    IF l.kind = "video" THEN At("tt_clips_audio", l) ELSE At("tt_ripple", LocInit)

\* range(1, track_count + 1), lines 303 and 339
TtFirstTrack(l) ==
    IF TrackCount(l) >= 1
    THEN At("tt_clips_list", [l EXCEPT !.track_idx = 1, !.n_items = 0, !.item_idx = 0])
    ELSE TtAfterTracks(l)

TtNextTrack(l) ==
    IF l.track_idx < TrackCount(l)
    THEN At("tt_clips_list", [l EXCEPT !.track_idx = @ + 1, !.n_items = 0, !.item_idx = 0])
    ELSE TtAfterTracks(l)

\* enumerate(track_items, 1), lines 307 and 343
TtNextItem(l) ==
    IF l.item_idx < l.n_items
    THEN At("tt_clips_item", [l EXCEPT !.item_idx = @ + 1, !.info_idx = 1])
    ELSE TtNextTrack(l)

\* what is printed when a step of the analysis leads to position p
TtClipsMsg(go, old) ==
    IF go = TtClipsFailed THEN Msg("test_failed", "timeline_analysis")
    ELSE IF go.pc = "tt_ripple" THEN Msg("timeline_summary", "")
    ELSE old

\* lines 278-289: the project check and GetCurrentTimeline()
TtClipsStart ==
    /\ pc = "tt_clips"
    /\ IF TtSkips(current_project)
       THEN /\ NoHostCall
            /\ msg' = Msg("skipped", "timeline_analysis")
            /\ pc' = "tt_ripple"
            /\ loc' = LocInit
       ELSE \E r \in Replies :
              /\ LinearCall("clips", "Project.GetCurrentTimeline", r, TRUE)
              /\ msg' = CASE r = "raise" -> Msg("test_failed", "timeline_analysis")
                          [] r = "none" -> Msg("no_timeline_selected", "timeline_analysis")
                          [] OTHER -> msg
              /\ pc' = IF r = "ok" THEN "tt_clips_head" ELSE "tt_ripple"
              /\ loc' = LocInit
    /\ UNCHANGED <<exit_status, resolve, project_manager, current_project>>
    /\ UNCHANGED linVars

TtClipsHeadCalls ==
    <<"Timeline.GetName", "Timeline.GetSetting:timelineFrameRate",
      "Timeline.GetTrackCount:video">>

\* lines 291-303: GetName(), float(GetSetting(...)) and GetTrackCount("video");
\* None raises TypeError in float() and in range()
TtClipsHead ==
    /\ pc = "tt_clips_head"
    /\ \E r \in Replies, n \in 0..MaxTracks :
         LET k == loc.info_idx
             go == IF r = "raise" \/ (r = "none" /\ k >= 2) THEN TtClipsFailed
                   ELSE IF k < Len(TtClipsHeadCalls)
                   THEN At("tt_clips_head", [loc EXCEPT !.info_idx = @ + 1])
                   ELSE TtFirstTrack([loc EXCEPT !.video_tracks = PyInt(n),
                                                 !.kind = "video", !.info_idx = 1])
         IN  /\ LinearCall("clips", TtClipsHeadCalls[k], r, TRUE)
             /\ pc' = go.pc
             /\ loc' = go.loc
             /\ msg' = TtClipsMsg(go, msg)
    /\ UNCHANGED <<exit_status, resolve, project_manager, current_project>>
    /\ UNCHANGED linVars

\* lines 335-339: GetTrackCount("audio")
TtClipsAudioCount ==
    /\ pc = "tt_clips_audio"
    /\ \E r \in Replies, n \in 0..MaxTracks :
         LET go == IF r # "ok" THEN TtClipsFailed
                   ELSE TtFirstTrack([loc EXCEPT !.audio_tracks = PyInt(n),
                                                 !.kind = "audio"])
         IN  /\ LinearCall("clips", "Timeline.GetTrackCount:audio", r, FALSE)
             /\ pc' = go.pc
             /\ loc' = go.loc
             /\ msg' = TtClipsMsg(go, msg)
    /\ UNCHANGED <<exit_status, resolve, project_manager, current_project>>
    /\ UNCHANGED linVars

\* lines 304-305 and 340-341: GetItemListInTrack and len() of its result
TtClipsTrackList ==
    /\ pc = "tt_clips_list"
    /\ \E r \in Replies, n \in 0..MaxItems :
         LET go == IF r # "ok" THEN TtClipsFailed
                   ELSE IF n >= 1
                   THEN At("tt_clips_item", [loc EXCEPT !.n_items = n, !.item_idx = 1,
                                                        !.info_idx = 1])
                   ELSE TtNextTrack(loc)
         IN  /\ LinearCall("clips", "Timeline.GetItemListInTrack:" \o TrackId(loc), r, FALSE)
             /\ pc' = go.pc
             /\ loc' = go.loc
             /\ msg' = TtClipsMsg(go, msg)
    /\ UNCHANGED <<exit_status, resolve, project_manager, current_project>>
    /\ UNCHANGED linVars

TtClipItemCalls ==
    <<"Item.GetName", "Item.GetStart", "Item.GetEnd", "Item.GetDuration",
      "Item.GetLeftOffset", "Item.GetRightOffset">>

\* lines 308-332 and 344-368: the six queries of one item; an exception is
\* caught by the handler of the item and the next item follows;
\* frames_to_timecode (lines 320-322) raises nothing
TtClipsItem ==
    /\ pc = "tt_clips_item"
    /\ \E r \in Replies :
         LET k == loc.info_idx
             go == IF r # "raise" /\ k < Len(TtClipItemCalls)
                   THEN At("tt_clips_item", [loc EXCEPT !.info_idx = @ + 1])
                   ELSE TtNextItem(loc)
         IN  /\ LinearCall("clips", TtClipItemCalls[k] \o ":" \o ItemId(loc), r, FALSE)
             /\ pc' = go.pc
             /\ loc' = go.loc
             /\ msg' = IF r = "raise" /\ go.pc # "tt_ripple" THEN Msg("clip_error", ItemId(loc))
                       ELSE TtClipsMsg(go, msg)
    /\ UNCHANGED <<exit_status, resolve, project_manager, current_project>>
    /\ UNCHANGED linVars

(***************************************************************************)
(* taketest.py: test_ripple_editing_functionality and the end of main.     *)
(***************************************************************************)
TtRippleCalls == <<"Project.GetCurrentTimeline", "Timeline.GetName", "Project.GetMediaPool">>

\* test_ripple_editing_functionality, lines 138-269
TtRipple ==
    /\ pc = "tt_ripple"
    /\ IF TtSkips(current_project)
       THEN /\ NoHostCall
            /\ msg' = Msg("skipped", "ripple_editing")
            /\ pc' = "tt_disconnect"
            /\ loc' = LocInit
       ELSE \E r \in Replies :
              LET k == loc.info_idx
                  last == r = "raise" \/ (r = "none" /\ k = 1) \/ k = Len(TtRippleCalls)
              IN  /\ LinearCall("ripple", TtRippleCalls[k], r, TRUE)
                  /\ msg' = CASE r = "raise" -> Msg("test_failed", "ripple_editing")
                              [] r = "none" /\ k = 1 -> Msg("no_timeline_selected", "ripple_editing")
                              [] last -> Msg("ripple_summary", "")
                              [] OTHER -> msg
                  /\ pc' = IF last THEN "tt_disconnect" ELSE "tt_ripple"
                  /\ loc' = IF last THEN LocInit ELSE [loc EXCEPT !.info_idx = @ + 1]
    /\ UNCHANGED <<exit_status, resolve, project_manager, current_project>>
    /\ UNCHANGED linVars

\* main, lines 473-479: disconnect() and the end of the script
TtDisconnect ==
    /\ pc = "tt_disconnect"
    /\ resolve' = None /\ project_manager' = None /\ current_project' = None
    /\ pc' = "exited"
    /\ exit_status' = "0"
    /\ msg' = Msg("completed", "")
    /\ NoHostCall
    /\ UNCHANGED loc
    /\ UNCHANGED linVars

(***************************************************************************)
(* davinciapitest.py.                                                      *)
(***************************************************************************)
\* lines 8-14
ApiArchCheck ==
    /\ pc = "api_arch"
    /\ StageEnds("api_paths", env.is64bit, "not_64bit")
    /\ NoHostCall
    /\ UNCHANGED <<loc, resolve, project_manager, current_project>>
    /\ UNCHANGED linVars

\* lines 16-42
ApiPathDiscovery ==
    /\ pc = "api_paths"
    /\ StageEnds("api_import", env.modules_isdir, "modules_path_missing")
    /\ NoHostCall
    /\ UNCHANGED <<loc, resolve, project_manager, current_project>>
    /\ UNCHANGED linVars

\* lines 45-57: import DaVinciResolveScript
ApiImportModule ==
    /\ pc = "api_import"
    /\ \E r \in {"ok", "raise"} : StageEnds("api_scriptapp", r = "ok", "import_error")
    /\ NoHostCall
    /\ UNCHANGED <<loc, resolve, project_manager, current_project>>
    /\ UNCHANGED linVars

\* lines 60-71: scriptapp("Resolve")
ApiScriptapp ==
    /\ pc = "api_scriptapp"
    /\ \E r \in Replies :
         /\ LinearCall("connect", "scriptapp", r, TRUE)
         /\ resolve' = IF r = "ok" THEN "resolve" ELSE None
         /\ StageEnds("api_info", r = "ok",
                      IF r = "none" THEN "resolve_not_running" ELSE "host")
    /\ loc' = LocInit
    /\ UNCHANGED <<project_manager, current_project>>
    /\ UNCHANGED linVars

ApiInfoCalls ==
    <<"Resolve.GetVersionString", "Resolve.GetProjectManager",
      "ProjectManager.GetCurrentProject", "Project.GetName">>

\* lines 74-89: one call of the information block; an exception, and the
\* attribute access on a None project manager, end it at the handler of 87
ApiInfo ==
    /\ pc = "api_info"
    /\ \E r \in Replies :
         LET k == loc.info_idx
             error == r = "raise" \/ (r = "none" /\ k = 2)
             last == error \/ (r = "none" /\ k = 3) \/ k = Len(ApiInfoCalls)
         IN  /\ LinearCall("info", ApiInfoCalls[k], r, TRUE)
             /\ project_manager' = IF k = 2 /\ r # "raise"
                                   THEN (IF r = "ok" THEN "project_manager" ELSE None)
                                   ELSE project_manager
             /\ current_project' = IF k = 3 /\ r # "raise"
                                   THEN (IF r = "ok" THEN "project" ELSE None)
                                   ELSE current_project
             /\ msg' = CASE error -> Msg("info_error", "")
                         [] r = "none" /\ k = 3 -> Msg("no_project_open", "")
                         [] last -> Msg("current_project", "")
                         [] OTHER -> msg
             /\ pc' = IF last THEN "api_done" ELSE "api_info"
             /\ loc' = IF last THEN LocInit ELSE [loc EXCEPT !.info_idx = @ + 1]
    /\ UNCHANGED <<exit_status, resolve>>
    /\ UNCHANGED linVars

\* line 91: the end of the script
ApiCompleted ==
    /\ pc = "api_done"
    /\ pc' = "exited"
    /\ exit_status' = "0"
    /\ msg' = Msg("completed", "")
    /\ NoHostCall
    /\ UNCHANGED <<loc, resolve, project_manager, current_project>>
    /\ UNCHANGED linVars

(***************************************************************************)
(* Either script, started on any interpreter and installation.             *)
(***************************************************************************)
LinearInit ==
    /\ pc \in {"tt_arch", "api_arch"}
    /\ exit_status = "running"
    /\ resolve = None
    /\ project_manager = None
    /\ current_project = None
    /\ current_timeline = None
    /\ msg = NoMsg
    /\ op = "none"
    /\ calls = <<>>
    /\ failed = {}
    /\ lastCall = NoCall
    /\ loc = LocInit
    /\ choice = <<>>
    /\ env \in [is64bit : BOOLEAN, modules_isdir : BOOLEAN]
    /\ tc_frames = PyNone
    /\ tc_fps = PyNone
    /\ tc_result = NoResult

LinearNext ==
    \/ TtArchCheck
    \/ TtPathDiscovery
    \/ TtImportModule
    \/ TtScriptapp
    \/ TtGetProjectManager
    \/ TtGetCurrentProject
    \/ TtGetBasicInfo
    \/ TtBasicTest
    \/ TtBasicTimelineName
    \/ TtClipsStart
    \/ TtClipsHead
    \/ TtClipsAudioCount
    \/ TtClipsTrackList
    \/ TtClipsItem
    \/ TtRipple
    \/ TtDisconnect
    \/ ApiArchCheck
    \/ ApiPathDiscovery
    \/ ApiImportModule
    \/ ApiScriptapp
    \/ ApiInfo
    \/ ApiCompleted

SpecLinear == LinearInit /\ [][LinearNext]_vars

(***************************************************************************)
(* The stages of the linear scripts.                                       *)
(***************************************************************************)
TtPcs ==
    {"tt_arch", "tt_paths", "tt_import", "tt_scriptapp", "tt_pm", "tt_project", "tt_info",
     "tt_basic", "tt_basic_name", "tt_clips", "tt_clips_head", "tt_clips_audio",
     "tt_clips_list", "tt_clips_item", "tt_ripple", "tt_disconnect"}
ApiPcs == {"api_arch", "api_paths", "api_import", "api_scriptapp", "api_info", "api_done"}

\* the stage a position belongs to: 1 architecture check, 2 install-path
\* discovery, 3 import of the vendor module, 4 connect, 5 host queries (and
\* what follows them), 6 the script has ended
LinearStage(p) ==
    CASE p \in {"tt_arch", "api_arch"} -> 1
      [] p \in {"tt_paths", "api_paths"} -> 2
      [] p \in {"tt_import", "api_import"} -> 3
      [] p \in {"tt_scriptapp", "tt_pm", "tt_project", "api_scriptapp"} -> 4
      [] p = "exited" -> 6
      [] OTHER -> 5

\* the calls of connect
ConnectCallNames == {"scriptapp", "Resolve.GetProjectManager", "ProjectManager.GetCurrentProject"}

\* the step taken from position pc is the failure of its stage: a 32-bit
\* interpreter, a missing modules path, a failed import, or a call of
\* connect that raised or returned nothing usable
StageFails ==
    \/ pc \in {"tt_arch", "api_arch"} /\ ~env.is64bit
    \/ pc \in {"tt_paths", "api_paths"} /\ ~env.modules_isdir
    \/ pc \in {"tt_import", "api_import"} /\ msg' = Msg("error", "import_error")
    \/ pc \in {"tt_scriptapp", "api_scriptapp", "tt_pm"} /\ calls'[Len(calls')].res # "ok"
    \/ pc = "tt_project" /\ calls'[Len(calls')].res = "raise"

\* C12: in taketest.main and davinciapitest the stages run strictly in the
\* order architecture check, install-path discovery, vendor module import,
\* connect, host queries; a failure of a stage up to and including connect
\* ends the script with status 1 at once: no later stage is entered and no
\* host call follows (nothing is executed after the exit); no host call is
\* made before connect, and only connect's calls are made in connect.
LinearStagesInOrder ==
    [][ /\ pc # "exited"
        /\ (pc \in TtPcs => pc' \in TtPcs \cup {"exited"})
        /\ (pc \in ApiPcs => pc' \in ApiPcs \cup {"exited"})
        /\ LinearStage(pc) <= 4 =>
              /\ StageFails =>
                     /\ pc' = "exited"
                     /\ exit_status' = "1"
                     /\ msg'.kind = "error"
              /\ ~StageFails =>
                     /\ LinearStage(pc') \in {LinearStage(pc), LinearStage(pc) + 1}
                     /\ exit_status' = "running"
              /\ LinearStage(pc) <= 3 => calls' = <<>>
              /\ \A i \in 1..Len(calls') : calls'[i].name \in ConnectCallNames
        /\ LinearStage(pc) = 5 =>
              /\ LinearStage(pc') \in {5, 6}
              /\ exit_status' = IF pc' = "exited" THEN "0" ELSE "running"
              /\ resolve # None
        /\ exit_status' = "1" => LinearStage(pc) <= 4
        /\ LinearStage(pc) <= 3 => lastCall' = NoCall
        /\ calls' # calls =>
              /\ LinearStage(pc) \in {4, 5}
              /\ (calls'[Len(calls')].name = "scriptapp") = (LinearStage(pc) = 4 /\ calls = <<>>)
              /\ pc \in TtPcs =>
                     (calls'[Len(calls')].name \in ConnectCallNames) = (LinearStage(pc) = 4)
        /\ (pc = "tt_pm" => calls[Len(calls)].name = "scriptapp")
        /\ (pc = "tt_project" => calls[Len(calls)].name = "Resolve.GetProjectManager")
      ]_vars

\* the host was not reachable: the script ended with status 1 after that
\* single call
ExitedAfterFailedConnect ==
    /\ pc = "exited"
    /\ exit_status = "1"
    /\ msg = Msg("error", "resolve_not_running")
    /\ Len(calls) = 1
    /\ calls[1].name = "scriptapp"
    /\ calls[1].res = "none"

(***************************************************************************)
(* taketest without an open project.                                       *)
(***************************************************************************)
\* a call on the project, a timeline, a timeline item or the media pool
IsProjectCall(c) ==
    c.name \notin ConnectCallNames \cup {"Resolve.GetVersionString"}

\* the skip message of the test at position p (test number k of
\* test_basic_functionality)
SkipMessage(p, k) ==
    CASE p = "tt_basic" -> Msg("skipped", TtBasicSkipped[k])
      [] p = "tt_clips" -> Msg("skipped", "timeline_analysis")
      [] OTHER -> Msg("skipped", "ripple_editing")

\* C13: in taketest, when connect succeeded and no project is open, each of
\* the three tests of test_basic_functionality, the timeline clips analysis
\* and the ripple editing test prints its skip message and issues no host
\* call; no call on the project, a timeline or the media pool is made
\* anywhere, and the script goes on, test after test, to disconnect and
\* ends with status 0.
NoProjectSkipsTests ==
    [][ (pc \in TtPcs /\ LinearStage(pc) = 5 /\ pc # "tt_disconnect"
             /\ current_project = None) =>
            /\ \A i \in 1..Len(calls') : ~IsProjectCall(calls'[i])
            /\ lastCall'.id \in {"", "Resolve.GetVersionString"}
            /\ pc \in {"tt_info", "tt_basic", "tt_clips", "tt_ripple"}
            /\ pc # "tt_info" =>
                   /\ calls' = calls
                   /\ lastCall' = lastCall
                   /\ msg' = SkipMessage(pc, loc.info_idx)
            /\ pc' = CASE pc = "tt_info" -> "tt_basic"
                       [] pc = "tt_basic" /\ loc.info_idx < 3 -> "tt_basic"
                       [] pc = "tt_basic" -> "tt_clips"
                       [] pc = "tt_clips" -> "tt_ripple"
                       [] OTHER -> "tt_disconnect"
            /\ pc = "tt_basic" /\ pc' = "tt_basic" => loc'.info_idx = loc.info_idx + 1
            /\ exit_status' = "running"
            /\ current_project' = None
      ]_vars

\* without a project the last test was skipped and disconnect is next
SkippedToDisconnect ==
    /\ pc = "tt_disconnect"
    /\ current_project = None
    /\ resolve # None
    /\ msg = Msg("skipped", "ripple_editing")
    /\ \A i \in 1..Len(calls) : calls[i].name = "Resolve.GetVersionString"

=============================================================================
